---------------------------- MODULE Spec2Model ----------------------------
(***************************************************************************)
(* Case & Message Lifecycle Engine of the NeuroGen backend.                *)
(*                                                                         *)
(* The repository ships two server programs that implement the engine:     *)
(*   - backend/app/routers/cases.py : the router of the Supabase-backed    *)
(*     application (tables medical_cases and case_messages);               *)
(*   - backend/main.py              : the stand-alone server that keeps    *)
(*     the cases in the in-memory dict cases_db.                           *)
(* A run of the model is a run of one of the two programs: the variable    *)
(* deployment is chosen in Init and never changes, and each program only   *)
(* touches its own store.                                                  *)
(*                                                                         *)
(* Every handler is one action: the handlers contain no await between      *)
(* their first read and their last write of the store, so that inside one  *)
(* process a handler runs to completion before the next one starts.        *)
(*                                                                         *)
(* Six specifications share the variables:                                 *)
(*   Spec      the engine, one request after another;                      *)
(*   SpecLoop  the engine under the event loop, the handlers of the router *)
(*             resumed one store call at a time;                           *)
(*   SpecAuth  register and login;                                         *)
(*   SpecSynth the Report Synthesizer;                                     *)
(*   SpecChat  the Conversational Assistant;                               *)
(*   SpecCore  an analysis and a chat request served side by side.         *)
(*                                                                         *)
(* Left out of the rows, because no handler reads them back: description,  *)
(* image_url, modality and tags (they are copied from the request into the *)
(* new row and returned as they are).                                      *)
(*                                                                         *)
(* Python's None is the empty sequence and a present value v is <<v>>.     *)
(* The ids that the code draws from time_ns() and uuid4() are modelled as  *)
(* fresh ids (the number of rows created so far, plus one).                *)
(***************************************************************************)
EXTENDS Integers, Sequences, FiniteSets, TLC

\* ------------------------------------------------------------------ bounds
MaxCases == 2       \* cases that create may add to a store
MaxMsgs  == 2       \* messages that may be appended to a store
MaxClock == 1       \* minutes the wall clock may advance
MaxReqs  == 3       \* requests served in one run

\* ------------------------------------------------------------ data universe
None == << >>
Some(v) == << v >>

DOCTOR  == "DOCTOR"
PATIENT == "PATIENT"
PENDING   == "pending"
COMPLETED == "completed"

\* The accounts: the two seeded by main.py (a doctor and patient_demo) and one
\* more registered patient.  Anon is a request without a valid credential.
Users   == {"doctor_demo", "patient_demo", "patient_2"}
Anon    == "anon"
Callers == Users \cup {Anon}

\* The role of an account.  main.py stores it as "doctor" / "patient" and the
\* profiles table as "DOCTOR" / "PATIENT": one enumeration stands for both.
Role(u) == IF u = "doctor_demo" THEN DOCTOR ELSE PATIENT

Name(u) ==
  CASE u = "doctor_demo"  -> "Dr Zhang"
    [] u = "patient_demo" -> "Li"
    [] u = "patient_2"    -> "Wang"

Feedbacks == {"fb1", "fb2"}
Texts     == {"hello"}

DemoCaseId  == 0

\* strftime("%Y/%m/%d %H:%M") orders like the minute count itself;
\* strftime("%H:%M") drops the date.
MinutesPerDay == 1440
FmtYMDHM(t) == t
FmtHM(t)    == t % MinutesPerDay

VARIABLES
  deployment,     \* "app" (app/routers/cases.py) or "main" (main.py)
  medical_cases,  \* app: table medical_cases, rows in insertion order
  case_messages,  \* app: table case_messages, rows in insertion order
  cases_db,       \* main: dict cases_db, values in insertion order
  now,            \* the wall clock, in minutes
  resp,           \* the last request and its response
  nreq,           \* the number of requests served so far
  tasks,          \* the event loop: the requests accepted so far, as coroutines
  running,        \* the event loop: the coroutine that holds the loop, or 0
  profiles,       \* app: table profiles, rows in insertion order
  users_db,       \* main: dict users_db
  auth_resp,      \* the last register / login request and its response
  analysis,       \* the analysis request in flight and its response
  chat            \* the chat request in flight and its response

engineVars == << deployment, medical_cases, case_messages, cases_db, now, resp, nreq >>
loopVars   == << tasks, running >>
authVars   == << profiles, users_db, auth_resp >>
synthVars  == << analysis >>
chatVars   == << chat >>

vars == << engineVars, loopVars, authVars, synthVars, chatVars >>

\* ------------------------------------------------------------ the response
\* The request: op, caller, cid (-1 when the operation names no case) and arg
\* (the feedback or the message text, "" otherwise).  The response: code (the
\* HTTP status), body (the cases it carries) and msg (the message it carries).
Response(op, u, cid, arg, code, body, msg) ==
  [op |-> op, caller |-> u, cid |-> cid, arg |-> arg,
   code |-> code, body |-> body, msg |-> msg]

Fail(op, u, cid, arg, code) == Response(op, u, cid, arg, code, << >>, << >>)

\* ----------------------------------------------------- repository helpers
Rows(table, cid) == SelectSeq(table, LAMBDA r : r.id = cid)

Exists(table, cid) == \E i \in 1 .. Len(table) : table[i].id = cid

Range(s) == { s[i] : i \in 1 .. Len(s) }


\* created_at of both tables is assigned by the database at insert; the code
\* only sorts by it.  It is modelled as the insertion stamp of the row.
InsertStamp(table) == Len(table) + 1

RemoveAt(s, i) == SubSeq(s, 1, i - 1) \o SubSeq(s, i + 1, Len(s))

\* .order("created_at", desc=True): the row at place k is the one with k - 1
\* rows before it, rows of the same created_at staying in the order of the table
OrderByCreatedAtDesc(rows) ==
  [k \in 1 .. Len(rows) |->
     rows[CHOOSE i \in 1 .. Len(rows) :
            Cardinality({ j \in 1 .. Len(rows) :
                            \/ rows[j].created_at > rows[i].created_at
                            \/ (rows[j].created_at = rows[i].created_at /\ j < i) })
              = k - 1]]

\* the rows with the newest first
OrderByCreatedAtAsc_newest_first(rows) ==
  [k \in 1 .. Len(rows) |->
     rows[CHOOSE i \in 1 .. Len(rows) :
            Cardinality({ j \in 1 .. Len(rows) :
                            \/ rows[j].created_at > rows[i].created_at
                            \/ (rows[j].created_at = rows[i].created_at /\ j < i) })
              = k - 1]]

\* .order("created_at", desc=False)
OrderByCreatedAtAsc(rows) ==
  [k \in 1 .. Len(rows) |->
     rows[CHOOSE i \in 1 .. Len(rows) :
            Cardinality({ j \in 1 .. Len(rows) :
                            \/ rows[j].created_at < rows[i].created_at
                            \/ (rows[j].created_at = rows[i].created_at /\ j < i) })
              = k - 1]]

\* db.table("case_messages").select("*").eq("case_id", cid).order("created_at")
SelectMessages(cid) ==
  OrderByCreatedAtAsc(SelectSeq(case_messages, LAMBDA m : m.case_id = cid))

\* the update that keeps only the rows it has written
UpdateCase_drops_other_rows(table, cid, patch) ==
  LET hit == SelectSeq(table, LAMBDA r : r.id = cid)
  IN  [i \in 1 .. Len(hit) |-> patch[hit[i]]]

\* db.table("medical_cases").update(...).eq("id", cid): patch maps a row of the
\* table to the row after the update; rows with another id are left alone.
UpdateCase(table, cid, patch) ==
  [i \in 1 .. Len(table) |-> IF table[i].id = cid THEN patch[table[i]] ELSE table[i]]

\* --------------------------------------------- app/routers/cases.py helpers
CaseMessageResponse(m) ==
  [id |-> m.id, senderId |-> m.sender_id, senderName |-> m.sender_name,
   senderRole |-> m.sender_role, text |-> m.text, timestamp |-> m.timestamp]

_build_case_response(case, messages) ==
  [id                  |-> case.id,
   patientId           |-> case.patient_id,
   patientName         |-> case.patient_name,
   timestamp           |-> case.created_at,
   status              |-> case.status,
   doctorFeedback      |-> case.doctor_feedback,
   doctorName          |-> case.doctor_name,
   replyTimestamp      |-> case.reply_timestamp,
   messages            |-> [i \in 1 .. Len(messages) |-> CaseMessageResponse(messages[i])],
   hasUnreadForDoctor  |-> case.has_unread_for_doctor,
   hasUnreadForPatient |-> case.has_unread_for_patient]

\* case_data with the two unread flags swapped
case_data_flags_swapped(case_id, current_user, stamp) ==
  [id                     |-> case_id,
   patient_id             |-> current_user,
   patient_name           |-> Name(current_user),
   created_at             |-> stamp,
   status                 |-> PENDING,
   doctor_feedback        |-> None,
   doctor_name            |-> None,
   reply_timestamp        |-> None,
   has_unread_for_doctor  |-> FALSE,
   has_unread_for_patient |-> TRUE]

\* create_case: case_data, and the columns the insert leaves to their defaults
case_data(case_id, current_user, stamp) ==
  [id                     |-> case_id,
   patient_id             |-> current_user,
   patient_name           |-> Name(current_user),
   created_at             |-> stamp,
   status                 |-> PENDING,
   doctor_feedback        |-> None,
   doctor_name            |-> None,
   reply_timestamp        |-> None,
   has_unread_for_doctor  |-> TRUE,
   has_unread_for_patient |-> FALSE]

\* send_message: message_data
message_data(msg_id, case_id, current_user, text, t, stamp) ==
  [id          |-> msg_id,
   case_id     |-> case_id,
   sender_id   |-> current_user,
   sender_name |-> Name(current_user),
   sender_role |-> Role(current_user),
   text        |-> text,
   timestamp   |-> FmtHM(t),
   created_at  |-> stamp]

\* the flags update that also reopens the case
send_message_flags_reopens(row, current_user) ==
  LET is_patient == Role(current_user) = PATIENT
  IN  [row EXCEPT !.has_unread_for_doctor  = is_patient,
                  !.has_unread_for_patient = ~ is_patient,
                  !.status                 = PENDING]

\* the flags update that also withdraws the time of the diagnosis
send_message_flags_withdraws_reply(row, current_user) ==
  LET is_patient == Role(current_user) = PATIENT
  IN  [row EXCEPT !.has_unread_for_doctor  = is_patient,
                  !.has_unread_for_patient = ~ is_patient,
                  !.reply_timestamp        = None]

\* the flags update with the two roles exchanged
send_message_flags_swapped(row, current_user) ==
  LET is_patient == Role(current_user) = PATIENT
  IN  [row EXCEPT !.has_unread_for_doctor  = ~ is_patient,
                  !.has_unread_for_patient = is_patient]

\* send_message: the update of the unread flags
send_message_flags(row, current_user) ==
  LET is_patient == Role(current_user) = PATIENT
  IN  [row EXCEPT !.has_unread_for_doctor  = is_patient,
                  !.has_unread_for_patient = ~ is_patient]

\* update_data that flips the status instead of setting it
update_data_toggles_status(row, feedback, current_user, t) ==
  [row EXCEPT !.status                 = IF @ = PENDING THEN COMPLETED ELSE PENDING,
              !.doctor_feedback        = Some(feedback),
              !.doctor_name            = Some(Name(current_user)),
              !.reply_timestamp        = Some(FmtYMDHM(t)),
              !.has_unread_for_patient = TRUE]

\* the update that keeps the diagnosis of a case that already has one
update_data_first_write_wins(row, feedback, current_user, t) ==
  IF row.status = COMPLETED
    THEN [row EXCEPT !.has_unread_for_patient = TRUE]
    ELSE [row EXCEPT !.status                 = COMPLETED,
                     !.doctor_feedback        = Some(feedback),
                     !.doctor_name            = Some(Name(current_user)),
                     !.reply_timestamp        = Some(FmtYMDHM(t)),
                     !.has_unread_for_patient = TRUE]

\* the update that also hands the case to the caller
update_data_reassigns_patient(row, feedback, current_user, t) ==
  [row EXCEPT !.status                 = COMPLETED,
              !.doctor_feedback        = Some(feedback),
              !.doctor_name            = Some(Name(current_user)),
              !.reply_timestamp        = Some(FmtYMDHM(t)),
              !.has_unread_for_patient = TRUE,
              !.patient_id             = current_user]

\* submit_diagnosis: update_data
update_data(row, feedback, current_user, t) ==
  [row EXCEPT !.status                 = COMPLETED,
              !.doctor_feedback        = Some(feedback),
              !.doctor_name            = Some(Name(current_user)),
              !.reply_timestamp        = Some(FmtYMDHM(t)),
              !.has_unread_for_patient = TRUE]

\* the update with both flags cleared, whatever the role
clear_unread_both(row, role) ==
  [row EXCEPT !.has_unread_for_doctor = FALSE, !.has_unread_for_patient = FALSE]

\* get_case / mark_as_read: the flag of one role is cleared
clear_unread(row, role) ==
  IF role = DOCTOR
    THEN [row EXCEPT !.has_unread_for_doctor = FALSE]
    ELSE [row EXCEPT !.has_unread_for_patient = FALSE]

\* list_query without the .eq("patient_id", ...) filter
list_query_unfiltered(current_user) == OrderByCreatedAtDesc(medical_cases)

\* list_cases: the rows the query returns to current_user
list_query(current_user) ==
  IF Role(current_user) = PATIENT
    THEN OrderByCreatedAtDesc(
           SelectSeq(medical_cases, LAMBDA c : c.patient_id = current_user))
    ELSE OrderByCreatedAtDesc(medical_cases)

\* get_case: may current_user read the case?
get_case_allowed(case, current_user) ==
  ~ (Role(current_user) = PATIENT /\ case.patient_id # current_user)

\* get_case: the rows after the mark-as-read step
get_case_mark(case, cid, current_user) ==
  IF Role(current_user) = DOCTOR /\ case.has_unread_for_doctor
    THEN UpdateCase(medical_cases, cid,
        [r \in Range(medical_cases) |-> clear_unread(r, DOCTOR)])
  ELSE IF Role(current_user) = PATIENT /\ case.has_unread_for_patient
    THEN UpdateCase(medical_cases, cid,
        [r \in Range(medical_cases) |-> clear_unread(r, PATIENT)])
  ELSE medical_cases

\* ------------------------------------------- app/routers/cases.py handlers
\* current_user is the profile that the dependency get_current_user resolved: a
\* request without a valid token is rejected before the handler runs.
\* Every handler of the app router starts here: it serves one more request and
\* leaves the other program's store and the clock alone.
AppRequest ==
  /\ deployment = "app"
  /\ nreq < MaxReqs
  /\ nreq' = nreq + 1
  /\ UNCHANGED << deployment, cases_db, now, loopVars, authVars, synthVars, chatVars >>

list_cases(u) ==
  /\ AppRequest
  /\ LET cases == list_query(u)
     IN  resp' = Response("list", u, -1, "", 200,
           [i \in 1 .. Len(cases) |->
              _build_case_response(cases[i], SelectMessages(cases[i].id))],
           << >>)
  /\ UNCHANGED << medical_cases, case_messages >>

get_case(u, cid) ==
  /\ AppRequest
  /\ IF ~ Exists(medical_cases, cid)
       THEN /\ resp' = Fail("view", u, cid, "", 404)
            /\ UNCHANGED medical_cases
     ELSE LET case == Rows(medical_cases, cid)[1]
          IN  IF ~ get_case_allowed(case, u)
                THEN /\ resp' = Fail("view", u, cid, "", 403)
                     /\ UNCHANGED medical_cases
                ELSE /\ medical_cases' = get_case_mark(case, cid, u)
                     /\ resp' = Response("view", u, cid, "", 200,
                          << _build_case_response(case, SelectMessages(cid)) >>, << >>)
  /\ UNCHANGED case_messages

create_case(u) ==
  /\ AppRequest
  /\ IF Role(u) # PATIENT
       THEN /\ resp' = Fail("create", u, -1, "", 403)
            /\ UNCHANGED medical_cases
     ELSE /\ Len(medical_cases) < MaxCases
          /\ LET case_id == Len(medical_cases) + 1
                 row     == case_data(case_id, u, InsertStamp(medical_cases))
             IN  /\ medical_cases' = Append(medical_cases, row)
                 /\ resp' = Response("create", u, case_id, "", 201,
                      << _build_case_response(row, << >>) >>, << >>)
  /\ UNCHANGED case_messages

\* send_message with the access rule of get_case: a patient posts to the
\* patient's own cases only
send_message_owner_only(u, cid, text) ==
  /\ AppRequest
  /\ IF ~ Exists(medical_cases, cid)
       THEN /\ resp' = Fail("appendMessage", u, cid, text, 404)
            /\ UNCHANGED << medical_cases, case_messages >>
     ELSE IF ~ get_case_allowed(Rows(medical_cases, cid)[1], u)
       THEN /\ resp' = Fail("appendMessage", u, cid, text, 403)
            /\ UNCHANGED << medical_cases, case_messages >>
     ELSE /\ Len(case_messages) < MaxMsgs
          /\ LET msg_id == Len(case_messages) + 1
                 m == message_data(msg_id, cid, u, text, now, InsertStamp(case_messages))
             IN  /\ case_messages' = Append(case_messages, m)
                 /\ medical_cases' =
                      UpdateCase(medical_cases, cid,
                          [r \in Range(medical_cases) |-> send_message_flags(r, u)])
                 /\ resp' = Response("appendMessage", u, cid, text, 201, << >>,
                                     << CaseMessageResponse(m) >>)

send_message(u, cid, text) ==
  /\ AppRequest
  /\ IF ~ Exists(medical_cases, cid)
       THEN /\ resp' = Fail("appendMessage", u, cid, text, 404)
            /\ UNCHANGED << medical_cases, case_messages >>
     ELSE /\ Len(case_messages) < MaxMsgs
          /\ LET msg_id == Len(case_messages) + 1
                 m == message_data(msg_id, cid, u, text, now, InsertStamp(case_messages))
             IN  /\ case_messages' = Append(case_messages, m)
                 /\ medical_cases' =
                      UpdateCase(medical_cases, cid,
                          [r \in Range(medical_cases) |-> send_message_flags(r, u)])
                 /\ resp' = Response("appendMessage", u, cid, text, 201, << >>,
                                     << CaseMessageResponse(m) >>)

submit_diagnosis(u, cid, feedback) ==
  /\ AppRequest
  /\ IF Role(u) # DOCTOR
       THEN /\ resp' = Fail("submitDiagnosis", u, cid, feedback, 403)
            /\ UNCHANGED medical_cases
     ELSE LET result ==
                UpdateCase(medical_cases, cid,
                  [r \in Range(medical_cases) |-> update_data(r, feedback, u, now)])
          IN  /\ medical_cases' = result
              /\ IF Rows(result, cid) = << >>
                   THEN resp' = Fail("submitDiagnosis", u, cid, feedback, 404)
                   ELSE resp' = Response("submitDiagnosis", u, cid, feedback, 200,
                          << _build_case_response(Rows(result, cid)[1],
                                                  SelectMessages(cid)) >>, << >>)
  /\ UNCHANGED case_messages

mark_as_read(u, cid) ==
  /\ AppRequest
  /\ medical_cases' =
       UpdateCase(medical_cases, cid,
           [r \in Range(medical_cases) |-> clear_unread(r, Role(u))])
  /\ resp' = Response("markRead", u, cid, "", 200, << >>, << >>)
  /\ UNCHANGED case_messages

\* ------------------------------------------------------- main.py helpers
\* The case seeded at import time ("demo-case-001", of patient_demo); its
\* timestamp is the fixed text "2025/06/15 10:30", a minute before the clock
\* of the running server.
DemoTimestamp == -1

_demo_case ==
  [id                  |-> DemoCaseId,
   patientId           |-> "patient_demo",
   patientName         |-> Name("patient_demo"),
   timestamp           |-> DemoTimestamp,
   status              |-> PENDING,
   doctorFeedback      |-> None,
   doctorName          |-> None,
   replyTimestamp      |-> None,
   messages            |-> << >>,
   hasUnreadForDoctor  |-> TRUE,
   hasUnreadForPatient |-> FALSE]

\* get_user_from_request: the user of the token, or None
get_user_from_request(u) == IF u \in Users THEN Some(u) ELSE None

RECURSIVE TotalMessages(_)
TotalMessages(cases) ==
  IF cases = << >> THEN 0
  ELSE Len(cases[1].messages) + TotalMessages(Tail(cases))

\* cases.sort(key=lambda c: c.get("timestamp", ""), reverse=True): Python's sort
\* is stable, also with reverse=True.
RECURSIVE SortByTimestampDesc(_)
SortByTimestampDesc(cases) ==
  IF cases = << >> THEN << >>
  ELSE LET top == CHOOSE k \in 1 .. Len(cases) :
                    \A j \in 1 .. Len(cases) : cases[j].timestamp <= cases[k].timestamp
           i   == CHOOSE k \in 1 .. Len(cases) :
                    /\ cases[k].timestamp = cases[top].timestamp
                    /\ \A j \in 1 .. (k - 1) : cases[j].timestamp # cases[top].timestamp
       IN  << cases[i] >> \o SortByTimestampDesc(RemoveAt(cases, i))

\* list_cases: the filter on the caller
main_list_filter(user) ==
  IF user # None /\ Role(user[1]) = PATIENT
    THEN SelectSeq(cases_db, LAMBDA c : c.patientId = user[1])
    ELSE cases_db

\* create_case: new_case
new_case(case_id, user, t) ==
  [id                  |-> case_id,
   patientId           |-> user,
   patientName         |-> Name(user),
   timestamp           |-> FmtYMDHM(t),
   status              |-> PENDING,
   doctorFeedback      |-> None,
   doctorName          |-> None,
   replyTimestamp      |-> None,
   messages            |-> << >>,
   hasUnreadForDoctor  |-> TRUE,
   hasUnreadForPatient |-> FALSE]

\* create_case: who may create
main_create_allowed(user) == user # None

\* add_case_message: message
message(msg_id, user, text, t) ==
  [id         |-> msg_id,
   senderId   |-> user,
   senderName |-> Name(user),
   senderRole |-> Role(user),
   text       |-> text,
   timestamp  |-> FmtYMDHM(t)]

\* the message list replaced by the new message instead of appended to
add_case_message_update_overwrites(case, m, user) ==
  LET appended == [case EXCEPT !.messages = << m >>]
  IN  IF Role(user) = DOCTOR
        THEN [appended EXCEPT !.hasUnreadForPatient = TRUE]
        ELSE [appended EXCEPT !.hasUnreadForDoctor = TRUE]

\* add_case_message: the append and the update of the unread flags
add_case_message_update(case, m, user) ==
  LET appended == [case EXCEPT !.messages = Append(@, m)]
  IN  IF Role(user) = DOCTOR
        THEN [appended EXCEPT !.hasUnreadForPatient = TRUE]
        ELSE [appended EXCEPT !.hasUnreadForDoctor = TRUE]

\* submit_case_diagnosis: who may submit
main_diagnosis_allowed(user) == user # None

\* the assignments without the one to doctorName
submit_case_diagnosis_update_no_name(case, feedback, user, t) ==
  [case EXCEPT !.status              = COMPLETED,
               !.doctorFeedback      = Some(feedback),
               !.replyTimestamp      = Some(FmtYMDHM(t)),
               !.hasUnreadForPatient = TRUE]

\* the assignments, and the doctor's own unread flag cleared as well
submit_case_diagnosis_update_clears_doctor(case, feedback, user, t) ==
  [case EXCEPT !.status              = COMPLETED,
               !.doctorFeedback      = Some(feedback),
               !.doctorName          = Some(Name(user)),
               !.replyTimestamp      = Some(FmtYMDHM(t)),
               !.hasUnreadForPatient = TRUE,
               !.hasUnreadForDoctor  = FALSE]

\* submit_case_diagnosis: the assignments to the case
submit_case_diagnosis_update(case, feedback, user, t) ==
  [case EXCEPT !.status              = COMPLETED,
               !.doctorFeedback      = Some(feedback),
               !.doctorName          = Some(Name(user)),
               !.replyTimestamp      = Some(FmtYMDHM(t)),
               !.hasUnreadForPatient = TRUE]

\* the assignment with the two roles exchanged
mark_case_read_update_other_role(case, user) ==
  IF Role(user) = DOCTOR
    THEN [case EXCEPT !.hasUnreadForPatient = FALSE]
    ELSE [case EXCEPT !.hasUnreadForDoctor = FALSE]

\* mark_case_read: the assignment to the case
mark_case_read_update(case, user) ==
  IF Role(user) = DOCTOR
    THEN [case EXCEPT !.hasUnreadForDoctor = FALSE]
    ELSE [case EXCEPT !.hasUnreadForPatient = FALSE]

\* ------------------------------------------------------ main.py handlers
MainRequest ==
  /\ deployment = "main"
  /\ nreq < MaxReqs
  /\ nreq' = nreq + 1
  /\ UNCHANGED << deployment, medical_cases, case_messages, now >>
  /\ UNCHANGED << loopVars, authVars, synthVars, chatVars >>

main_list_cases(u) ==
  /\ MainRequest
  /\ resp' = Response("list", u, -1, "", 200,
               SortByTimestampDesc(main_list_filter(get_user_from_request(u))), << >>)
  /\ UNCHANGED cases_db

\* get_case reads no credential: u only records who sent the request.
main_get_case(u, cid) ==
  /\ MainRequest
  /\ IF ~ Exists(cases_db, cid)
       THEN resp' = Fail("view", u, cid, "", 404)
       ELSE resp' = Response("view", u, cid, "", 200, << Rows(cases_db, cid)[1] >>, << >>)
  /\ UNCHANGED cases_db

main_create_case(u) ==
  /\ MainRequest
  /\ IF ~ main_create_allowed(get_user_from_request(u))
       THEN /\ resp' = Fail("create", u, -1, "", 401)
            /\ UNCHANGED cases_db
       ELSE /\ Len(cases_db) < MaxCases + 1
            /\ LET case_id == Len(cases_db)
                   c       == new_case(case_id, u, now)
               IN  /\ cases_db' = Append(cases_db, c)
                   /\ resp' = Response("create", u, case_id, "", 200, << c >>, << >>)

add_case_message(u, cid, text) ==
  /\ MainRequest
  /\ IF ~ Exists(cases_db, cid)
       THEN /\ resp' = Fail("appendMessage", u, cid, text, 404)
            /\ UNCHANGED cases_db
     ELSE IF get_user_from_request(u) = None
       THEN /\ resp' = Fail("appendMessage", u, cid, text, 401)
            /\ UNCHANGED cases_db
     ELSE /\ TotalMessages(cases_db) < MaxMsgs
          /\ LET m == message(TotalMessages(cases_db) + 1, u, text, now)
             IN  /\ cases_db' = UpdateCase(cases_db, cid,
                                   [c \in Range(cases_db) |-> add_case_message_update(c, m, u)])
                 /\ resp' = Response("appendMessage", u, cid, text, 200, << >>, << m >>)

submit_case_diagnosis(u, cid, feedback) ==
  /\ MainRequest
  /\ IF ~ Exists(cases_db, cid)
       THEN /\ resp' = Fail("submitDiagnosis", u, cid, feedback, 404)
            /\ UNCHANGED cases_db
     ELSE IF ~ main_diagnosis_allowed(get_user_from_request(u))
       THEN /\ resp' = Fail("submitDiagnosis", u, cid, feedback, 401)
            /\ UNCHANGED cases_db
     ELSE /\ cases_db' =
               UpdateCase(cases_db, cid,
                 [c \in Range(cases_db) |->
                    submit_case_diagnosis_update(c, feedback, u, now)])
          /\ resp' = Response("submitDiagnosis", u, cid, feedback, 200,
                              << Rows(cases_db', cid)[1] >>, << >>)

mark_case_read(u, cid) ==
  /\ MainRequest
  /\ IF ~ Exists(cases_db, cid)
       THEN /\ resp' = Fail("markRead", u, cid, "", 404)
            /\ UNCHANGED cases_db
     ELSE IF get_user_from_request(u) = None
       THEN /\ resp' = Response("markRead", u, cid, "", 200, << >>, << >>)
            /\ UNCHANGED cases_db
     ELSE /\ cases_db' = UpdateCase(cases_db, cid,
                 [c \in Range(cases_db) |-> mark_case_read_update(c, u)])
          /\ resp' = Response("markRead", u, cid, "", 200, << >>, << >>)

\* ------------------------------------------------------------ the system
\* Case ids a request may name: the ids of the stored cases and one id that no
\* case has (the handlers treat every absent id alike).
AppCaseIds  == 1 .. (Len(medical_cases) + 1)
MainCaseIds == 0 .. Len(cases_db)

\* datetime.now(): the clock advances between requests.
Tick ==
  /\ now < MaxClock
  /\ now' = now + 1
  /\ UNCHANGED << deployment, medical_cases, case_messages, cases_db, resp, nreq >>
  /\ UNCHANGED << loopVars, authVars, synthVars, chatVars >>

\* ------------------------------------------------- accounts at start-up
\* hashlib.sha256(password).hexdigest(): a digest that determines the password
\* for the passwords of the model.
sha256(password) == << "sha256", password >>

DemoPassword == "12345678"

\* The two accounts main.py seeds at import time (the doctor's 18-digit id is
\* written doctor_demo here).
_seed_users ==
  [id \in {"doctor_demo", "patient_demo"} |->
     [id            |-> id,
      password_hash |-> sha256(DemoPassword),
      role          |-> Role(id),
      name          |-> Name(id)]]

\* No function: the dict without keys.
EmptyDict == [x \in {} |-> x]

NoAuthResp == [op |-> "none", id |-> "", password |-> "", role |-> "",
               code |-> 0, token |-> None, user |-> None, detail |-> ""]

NoAnalysis == [pc |-> "idle"]
NoChat == [pc |-> "idle"]

Init ==
  /\ deployment \in {"app", "main"}
  /\ medical_cases = << >>
  /\ case_messages = << >>
  /\ cases_db = IF deployment = "main" THEN << _demo_case >> ELSE << >>
  /\ now = 0
  /\ nreq = 0
  /\ resp = Fail("none", Anon, -1, "", 0)
  /\ tasks = << >>
  /\ running = 0
  /\ profiles = << >>
  /\ users_db = IF deployment = "main" THEN _seed_users ELSE EmptyDict
  /\ auth_resp = NoAuthResp
  /\ analysis = NoAnalysis
  /\ chat = NoChat

Next ==
  \/ Tick
  \/ \E u \in Users : list_cases(u)
  \/ \E u \in Users, cid \in AppCaseIds : get_case(u, cid)
  \/ \E u \in Users : create_case(u)
  \/ \E u \in Users, cid \in AppCaseIds, text \in Texts : send_message(u, cid, text)
  \/ \E u \in Users, cid \in AppCaseIds, fb \in Feedbacks : submit_diagnosis(u, cid, fb)
  \/ \E u \in Users, cid \in AppCaseIds : mark_as_read(u, cid)
  \/ \E u \in Callers : main_list_cases(u)
  \/ \E u \in Callers, cid \in MainCaseIds : main_get_case(u, cid)
  \/ \E u \in Callers : main_create_case(u)
  \/ \E u \in Callers, cid \in MainCaseIds, text \in Texts : add_case_message(u, cid, text)
  \/ \E u \in Callers, cid \in MainCaseIds, fb \in Feedbacks : submit_case_diagnosis(u, cid, fb)
  \/ \E u \in Callers, cid \in MainCaseIds : mark_case_read(u, cid)

Spec == Init /\ [][Next]_vars


\* ===========================================================================
\* The engine's contract, stated on the stored cases of the running program.
\* ===========================================================================

\* The stored cases in the shape both programs return them in.
StoredCases ==
  IF deployment = "app"
    THEN [i \in 1 .. Len(medical_cases) |->
            _build_case_response(medical_cases[i], SelectMessages(medical_cases[i].id))]
    ELSE cases_db

\* The stored case of id cid: Rows(StoredCases, cid)[1], read without building
\* the other cases.
StoredCase(cid) ==
  IF deployment = "app"
    THEN _build_case_response(Rows(medical_cases, cid)[1], SelectMessages(cid))
    ELSE Rows(cases_db, cid)[1]

\* The step serves a request of operation op (resp' is that request).
Served(op) == nreq' = nreq + 1 /\ resp'.op = op

Succeeded(r) == r.code \in {200, 201}

DiagnosisNull(c) ==
  c.doctorFeedback = None /\ c.doctorName = None /\ c.replyTimestamp = None

DiagnosisSet(c) ==
  c.doctorFeedback # None /\ c.doctorName # None /\ c.replyTimestamp # None

ClearFlag(c, role) ==
  IF role = DOCTOR THEN [c EXCEPT !.hasUnreadForDoctor = FALSE]
                   ELSE [c EXCEPT !.hasUnreadForPatient = FALSE]

\* C1: a case that is COMPLETED is still stored and still COMPLETED after every
\* step: the status never goes back to PENDING.
C1_StatusNeverReverts ==
  [][ \A i \in 1 .. Len(StoredCases) :
        StoredCases[i].status = COMPLETED =>
          /\ i <= Len(StoredCases')
          /\ StoredCases'[i].id = StoredCases[i].id
          /\ StoredCases'[i].status = COMPLETED ]_vars

\* a request other than a diagnosis was served on a case that was COMPLETED
C1_Witness ==
  /\ resp.op \in {"appendMessage", "markRead", "view"}
  /\ Succeeded(resp)
  /\ Exists(StoredCases, resp.cid)
  /\ StoredCase(resp.cid).status = COMPLETED

\* C2: in every reachable state a PENDING case has its three diagnosis fields
\* null and a COMPLETED case has all three non-null.
C2_DiagnosisFieldsJoint ==
  \A i \in 1 .. Len(StoredCases) :
    LET c == StoredCases[i]
    IN  /\ c.status \in {PENDING, COMPLETED}
        /\ c.status = PENDING   => DiagnosisNull(c)
        /\ c.status = COMPLETED => DiagnosisSet(c)

\* a diagnosis was served while another case is still PENDING
C2_Witness ==
  /\ resp.op = "submitDiagnosis"
  /\ Succeeded(resp)
  /\ StoredCase(resp.cid).status = COMPLETED
  /\ \E i \in 1 .. Len(StoredCases) : StoredCases[i].status = PENDING

\* C3: a submitDiagnosis on a stored case by a caller whose role is not DOCTOR
\* fails with Forbidden (403) and leaves every stored case as it was.
C3_OnlyDoctorSubmits ==
  [][ (Served("submitDiagnosis") /\ resp'.caller \in Users
         /\ Role(resp'.caller) # DOCTOR /\ Exists(StoredCases, resp'.cid))
        => (resp'.code = 403 /\ StoredCases' = StoredCases) ]_vars

\* C4: a submitDiagnosis by a DOCTOR on an existing case completes the case with
\* the supplied feedback, the caller's name and a timestamp, raises the
\* patient's unread flag and changes nothing else of the case.
C4_SubmitDiagnosisEffect ==
  [][ (Served("submitDiagnosis") /\ resp'.caller \in Users
         /\ Role(resp'.caller) = DOCTOR /\ Exists(StoredCases, resp'.cid))
        => LET before == StoredCase(resp'.cid)
               after  == Rows(StoredCases', resp'.cid)[1]
           IN  /\ Succeeded(resp')
               /\ after.status = COMPLETED
               /\ after.doctorFeedback = Some(resp'.arg)
               /\ after.doctorName = Some(Name(resp'.caller))
               /\ after.replyTimestamp # None
               /\ after.hasUnreadForPatient = TRUE
               /\ after.hasUnreadForDoctor = before.hasUnreadForDoctor
               /\ after.patientId = before.patientId
               /\ after.messages = before.messages ]_vars

\* the doctor's diagnosis was served on a case whose doctor flag is still up
C4_Witness ==
  /\ resp.op = "submitDiagnosis"
  /\ Succeeded(resp)
  /\ Role(resp.caller) = DOCTOR
  /\ StoredCase(resp.cid).hasUnreadForDoctor
  /\ StoredCase(resp.cid).doctorFeedback = Some(resp.arg)

\* C5: a create by a PATIENT adds exactly one case, with a new id, PENDING,
\* unread for the doctor and not for the patient, with no diagnosis and no
\* message, owned by the caller; the cases stored before are untouched.
C5_CreateEffect ==
  [][ (Served("create") /\ resp'.caller \in Users /\ Role(resp'.caller) = PATIENT)
        => LET n == Len(StoredCases)
               c == StoredCases'[n + 1]
           IN  /\ Succeeded(resp')
               /\ Len(StoredCases') = n + 1
               /\ SubSeq(StoredCases', 1, n) = StoredCases
               /\ ~ Exists(StoredCases, c.id)
               /\ c.status = PENDING
               /\ c.hasUnreadForDoctor = TRUE
               /\ c.hasUnreadForPatient = FALSE
               /\ DiagnosisNull(c)
               /\ c.messages = << >>
               /\ c.patientId = resp'.caller ]_vars

\* a patient's create was served while a case of another patient is stored
C5_Witness ==
  /\ resp.op = "create"
  /\ Succeeded(resp)
  /\ Role(resp.caller) = PATIENT
  /\ StoredCase(resp.cid).patientId = resp.caller
  /\ \E i \in 1 .. Len(StoredCases) : StoredCases[i].patientId # resp.caller

\* C6: a create by a caller whose role is not PATIENT fails with Forbidden (403)
\* and adds no case.
C6_OnlyPatientCreates ==
  [][ (Served("create") /\ resp'.caller \in Users /\ Role(resp'.caller) # PATIENT)
        => (resp'.code = 403 /\ StoredCases' = StoredCases) ]_vars

\* C7: an appendMessage on an existing case raises the unread flag of the other
\* role and leaves the sender's own flag at the value it had.
C7_AppendMessageFlags ==
  [][ (Served("appendMessage") /\ resp'.caller \in Users
         /\ Exists(StoredCases, resp'.cid))
        => LET before == StoredCase(resp'.cid)
               after  == Rows(StoredCases', resp'.cid)[1]
           IN  IF Role(resp'.caller) = PATIENT
                 THEN /\ after.hasUnreadForDoctor = TRUE
                      /\ after.hasUnreadForPatient = before.hasUnreadForPatient
                 ELSE /\ after.hasUnreadForPatient = TRUE
                      /\ after.hasUnreadForDoctor = before.hasUnreadForDoctor ]_vars

\* C8: a view of an existing case by a PATIENT who does not own it fails with
\* Forbidden (403), returns no case and changes no stored case; every other
\* view of an existing case returns that case.
C8_ViewAccessControl ==
  [][ (Served("view") /\ resp'.caller \in Users /\ Exists(StoredCases, resp'.cid))
        => IF /\ Role(resp'.caller) = PATIENT
              /\ StoredCase(resp'.cid).patientId # resp'.caller
             THEN /\ resp'.code = 403
                  /\ resp'.body = << >>
                  /\ StoredCases' = StoredCases
             ELSE /\ resp'.code = 200
                  /\ Len(resp'.body) = 1
                  /\ resp'.body[1].id = resp'.cid ]_vars

\* C9: a list served to a PATIENT holds no case of another patient, and a list
\* served to a DOCTOR holds every stored case, each once.
C9_ListVisibility ==
  (resp.op = "list" /\ resp.caller \in Users)
    => /\ Role(resp.caller) = PATIENT =>
            \A i \in 1 .. Len(resp.body) : resp.body[i].patientId = resp.caller
       /\ Role(resp.caller) = DOCTOR =>
            /\ Len(resp.body) = Len(StoredCases)
            /\ Range(resp.body) = Range(StoredCases)

\* a patient's list was served while a case of another patient is stored
C9_Witness ==
  /\ resp.op = "list"
  /\ Role(resp.caller) = PATIENT
  /\ Len(resp.body) >= 1
  /\ \E i \in 1 .. Len(StoredCases) : StoredCases[i].patientId # resp.caller

\* C10: a successful view by a caller of role R leaves the stored cases as they
\* were but for R's unread flag of the viewed case, which is false afterwards
\* (so that a second view changes nothing, and the other role's flag is kept).
C10_ViewClearsOwnFlag ==
  [][ (Served("view") /\ resp'.caller \in Users /\ Succeeded(resp'))
        => StoredCases' =
             UpdateCase(StoredCases, resp'.cid,
               [c \in Range(StoredCases) |-> ClearFlag(c, Role(resp'.caller))]) ]_vars

\* The step serves a request that names a case id no stored case has.
ServedOnAbsent ==
  /\ nreq' = nreq + 1
  /\ resp'.op \in {"appendMessage", "submitDiagnosis", "markRead", "view"}
  /\ ~ Exists(StoredCases, resp'.cid)

\* C11: an appendMessage, submitDiagnosis, markRead or view that names a case id
\* not in the store fails with NotFound (404) and leaves the cases and the
\* messages of the store as they were.
C11_AbsentCaseNotFound ==
  [][ ServedOnAbsent
        => /\ resp'.code = 404
           /\ StoredCases' = StoredCases
           /\ case_messages' = case_messages ]_vars

\* C12: a markRead on an existing case by a caller of role R succeeds and leaves
\* the store as it was but for R's unread flag of that case, which is false
\* afterwards (with the flag already false nothing changes at all).
C12_MarkReadEffect ==
  [][ (Served("markRead") /\ resp'.caller \in Users /\ Exists(StoredCases, resp'.cid))
        => /\ Succeeded(resp')
           /\ StoredCases' =
                UpdateCase(StoredCases, resp'.cid,
                  [c \in Range(StoredCases) |-> ClearFlag(c, Role(resp'.caller))])
           /\ case_messages' = case_messages ]_vars

\* the doctor's markRead was served on a case whose patient flag stays up
C12_Witness ==
  /\ resp.op = "markRead"
  /\ Succeeded(resp)
  /\ Role(resp.caller) = DOCTOR
  /\ Exists(StoredCases, resp.cid)
  /\ ~ StoredCase(resp.cid).hasUnreadForDoctor
  /\ StoredCase(resp.cid).hasUnreadForPatient

\* ===========================================================================
\* The event loop.  Both programs run under one uvicorn process: every request
\* is a coroutine of the loop, and the loop switches coroutines only where the
\* running one awaits.  A handler is resumed here one store call at a time
\* (app/routers/cases.py) or as a whole (main.py, whose handlers are straight
\* lines of Python over cases_db), and all the requests name the same case.
\* The racing requests fall into one minute of the clock.
\* ===========================================================================
MaxTasks == 2       \* requests the loop accepts in one run

LoopOps == {"appendMessage", "view", "markRead", "submitDiagnosis"}

\* The stores as one value.
World == [mc |-> medical_cases, cm |-> case_messages, db |-> cases_db]

\* The case the racing requests name: the one patient_demo created (app) or the
\* seeded demo case (main).
LoopCaseId == IF deployment = "app" THEN 1 ELSE DemoCaseId

LoopInitWorld ==
  [mc |-> IF deployment = "app" THEN << case_data(1, "patient_demo", 1) >> ELSE << >>,
   cm |-> << >>,
   db |-> IF deployment = "main" THEN << _demo_case >> ELSE << >>]

\* The first store call of a handler.
first_call(op) ==
  IF deployment = "main" THEN "handler"
  ELSE CASE op = "appendMessage"   -> "select_case"
         [] op = "view"            -> "select_case"
         [] op = "markRead"        -> "update_flag"
         [] op = "submitDiagnosis" -> "update_case"

\* A request as a coroutine: pc is the call it executes when resumed, case and
\* msgs are its local variables, code and msg its response.
coroutine(op, u, cid, arg) ==
  [op |-> op, caller |-> u, cid |-> cid, arg |-> arg, pc |-> first_call(op),
   case |-> None, msgs |-> << >>, code |-> 0, msg |-> None]

Finish(W, t, code) == [w |-> W, t |-> [t EXCEPT !.pc = "done", !.code = code]]

Goto(W, t, pc) == [w |-> W, t |-> [t EXCEPT !.pc = pc]]

\* app send_message, one store call
send_message_step(W, t) ==
  CASE t.pc = "select_case" ->
         IF Rows(W.mc, t.cid) = << >>
           THEN Finish(W, t, 404)
           ELSE Goto(W, t, "insert_message")
    [] t.pc = "insert_message" ->
         LET m == message_data(Len(W.cm) + 1, t.cid, t.caller, t.arg, now,
                               InsertStamp(W.cm))
         IN  Goto([W EXCEPT !.cm = Append(@, m)],
                  [t EXCEPT !.msg = Some(CaseMessageResponse(m))], "update_flags")
    [] t.pc = "update_flags" ->
         Finish([W EXCEPT !.mc = UpdateCase(@, t.cid,
                    [r \in Range(W.mc) |-> send_message_flags(r, t.caller)])],
                t, 201)

\* app get_case, one store call
get_case_step(W, t) ==
  CASE t.pc = "select_case" ->
         LET case_result == Rows(W.mc, t.cid)
         IN  IF case_result = << >> THEN Finish(W, t, 404)
             ELSE IF ~ get_case_allowed(case_result[1], t.caller) THEN Finish(W, t, 403)
             ELSE Goto(W, [t EXCEPT !.case = Some(case_result[1])], "select_messages")
    [] t.pc = "select_messages" ->
         Goto(W, [t EXCEPT !.msgs = OrderByCreatedAtAsc(
                      SelectSeq(W.cm, LAMBDA m : m.case_id = t.cid))], "mark_read")
    [] t.pc = "mark_read" ->
         LET case == t.case[1]
         IN  IF Role(t.caller) = DOCTOR /\ case.has_unread_for_doctor
               THEN Finish([W EXCEPT !.mc = UpdateCase(@, t.cid,
                              [r \in Range(W.mc) |-> clear_unread(r, DOCTOR)])], t, 200)
             ELSE IF Role(t.caller) = PATIENT /\ case.has_unread_for_patient
               THEN Finish([W EXCEPT !.mc = UpdateCase(@, t.cid,
                              [r \in Range(W.mc) |-> clear_unread(r, PATIENT)])], t, 200)
             ELSE Finish(W, t, 200)

\* app mark_as_read: its one store call
mark_as_read_step(W, t) ==
  Finish([W EXCEPT !.mc = UpdateCase(@, t.cid,
             [r \in Range(W.mc) |-> clear_unread(r, Role(t.caller))])], t, 200)

\* app submit_diagnosis, one store call
submit_diagnosis_step(W, t) ==
  CASE t.pc = "update_case" ->
         IF Role(t.caller) # DOCTOR THEN Finish(W, t, 403)
         ELSE LET result == UpdateCase(W.mc, t.cid,
                    [r \in Range(W.mc) |-> update_data(r, t.arg, t.caller, now)])
              IN  IF Rows(result, t.cid) = << >>
                    THEN Finish(W, t, 404)
                    ELSE Goto([W EXCEPT !.mc = result], t, "select_messages")
    [] t.pc = "select_messages" ->
         Finish(W, [t EXCEPT !.msgs = OrderByCreatedAtAsc(
                        SelectSeq(W.cm, LAMBDA m : m.case_id = t.cid))], 200)

\* a handler of main.py, as a whole
main_handler_step(W, t) ==
  IF ~ Exists(W.db, t.cid) THEN Finish(W, t, 404)
  ELSE CASE t.op = "view" -> Finish(W, t, 200)
    [] t.op = "appendMessage" ->
         IF get_user_from_request(t.caller) = None THEN Finish(W, t, 401)
         ELSE LET m == message(TotalMessages(W.db) + 1, t.caller, t.arg, now)
              IN  Finish([W EXCEPT !.db = UpdateCase(@, t.cid,
                             [c \in Range(W.db) |-> add_case_message_update(c, m, t.caller)])],
                         [t EXCEPT !.msg = Some(m)], 200)
    [] t.op = "submitDiagnosis" ->
         IF ~ main_diagnosis_allowed(get_user_from_request(t.caller)) THEN Finish(W, t, 401)
         ELSE Finish([W EXCEPT !.db = UpdateCase(@, t.cid,
                        [c \in Range(W.db) |->
                           submit_case_diagnosis_update(c, t.arg, t.caller, now)])], t, 200)
    [] t.op = "markRead" ->
         IF get_user_from_request(t.caller) = None THEN Finish(W, t, 200)
         ELSE Finish([W EXCEPT !.db = UpdateCase(@, t.cid,
                        [c \in Range(W.db) |-> mark_case_read_update(c, t.caller)])], t, 200)

\* The coroutine t executes its next call on the stores W.
step(W, t) ==
  IF deployment = "main" THEN main_handler_step(W, t)
  ELSE CASE t.op = "appendMessage"   -> send_message_step(W, t)
         [] t.op = "view"            -> get_case_step(W, t)
         [] t.op = "markRead"        -> mark_as_read_step(W, t)
         [] t.op = "submitDiagnosis" -> submit_diagnosis_step(W, t)

\* a handler that gives the loop away at every store call
handler_awaits_every_call(op, pc) == TRUE

\* Does the handler of op await after the call at pc?  The four handlers are
\* async def, their store calls are the blocking .execute() of the client and
\* none of them holds an await expression.
handler_awaits(op, pc) == FALSE

\* A request arrives, at any time: the loop creates its coroutine.
accept(op, u, arg) ==
  /\ Len(tasks) < MaxTasks
  /\ tasks' = Append(tasks, coroutine(op, u, LoopCaseId, arg))
  /\ UNCHANGED << engineVars, running, authVars, synthVars, chatVars >>

\* The loop resumes coroutine i for one call: it keeps the loop until it
\* returns or awaits.
resume(i) ==
  /\ tasks[i].pc # "done"
  /\ running \in {0, i}
  /\ LET r == step(World, tasks[i])
     IN  /\ medical_cases' = r.w.mc
         /\ case_messages' = r.w.cm
         /\ cases_db' = r.w.db
         /\ tasks' = [tasks EXCEPT ![i] = r.t]
         /\ running' = IF r.t.pc = "done" \/ handler_awaits(tasks[i].op, tasks[i].pc)
                         THEN 0 ELSE i
  /\ UNCHANGED << deployment, now, resp, nreq, authVars, synthVars, chatVars >>

LoopInit ==
  /\ deployment \in {"app", "main"}
  /\ medical_cases = LoopInitWorld.mc
  /\ case_messages = LoopInitWorld.cm
  /\ cases_db = LoopInitWorld.db
  /\ now = 0
  /\ nreq = 0
  /\ resp = Fail("none", Anon, -1, "", 0)
  /\ tasks = << >>
  /\ running = 0
  /\ profiles = << >>
  /\ users_db = IF deployment = "main" THEN _seed_users ELSE EmptyDict
  /\ auth_resp = NoAuthResp
  /\ analysis = NoAnalysis
  /\ chat = NoChat

LoopNext ==
  \/ \E u \in Users : accept("view", u, "")
  \/ \E u \in Users : accept("markRead", u, "")
  \/ \E u \in Users, text \in Texts : accept("appendMessage", u, text)
  \/ \E u \in Users, fb \in Feedbacks : accept("submitDiagnosis", u, fb)
  \/ \E i \in 1 .. Len(tasks) : resume(i)

SpecLoop == LoopInit /\ [][LoopNext]_vars

\* ---------------------------------------------- the contract under the loop
\* Coroutine t run from its first call to its return, alone, on the stores W.
RECURSIVE run_to_completion(_, _)
run_to_completion(W, t) ==
  IF t.pc = "done" THEN W
  ELSE LET r == step(W, t) IN run_to_completion(r.w, r.t)

\* The stores that the serial orders of the requests I leave behind, from W.
RECURSIVE SerialWorlds(_, _)
SerialWorlds(W, I) ==
  IF I = {} THEN {W}
  ELSE UNION { SerialWorlds(
                 run_to_completion(W,
                   coroutine(tasks[i].op, tasks[i].caller, tasks[i].cid, tasks[i].arg)),
                 I \ {i}) : i \in I }

\* The case the requests name, as the stores W hold it.
CaseOf(W) ==
  IF deployment = "app"
    THEN _build_case_response(Rows(W.mc, LoopCaseId)[1],
           OrderByCreatedAtAsc(SelectSeq(W.cm, LAMBDA m : m.case_id = LoopCaseId)))
    ELSE Rows(W.db, LoopCaseId)[1]

\* The state of a case: its message sequence, status, diagnosis fields and
\* unread flags.
CaseState(c) ==
  [messages            |-> [k \in 1 .. Len(c.messages) |->
                              [senderId |-> c.messages[k].senderId,
                               text     |-> c.messages[k].text]],
   status              |-> c.status,
   doctorFeedback      |-> c.doctorFeedback,
   doctorName          |-> c.doctorName,
   replyTimestamp      |-> c.replyTimestamp,
   hasUnreadForDoctor  |-> c.hasUnreadForDoctor,
   hasUnreadForPatient |-> c.hasUnreadForPatient]

FlagPair(c) == << c.hasUnreadForDoctor, c.hasUnreadForPatient >>

Done(i) == tasks[i].pc = "done"

AllDone == \A i \in 1 .. Len(tasks) : Done(i)

\* C13: every appendMessage that has returned has its message in the case's
\* message sequence, each at a place of its own: no message is lost, whatever
\* the other requests on the case did in between.
C13_NoLostMessage ==
  LET appended == { i \in 1 .. Len(tasks) :
                      tasks[i].op = "appendMessage" /\ Done(i) /\ Succeeded(tasks[i]) }
      stored   == CaseOf(World).messages
  IN  \E place \in [appended -> 1 .. Len(stored)] :
        /\ \A i \in appended :
             /\ stored[place[i]].id = tasks[i].msg[1].id
             /\ stored[place[i]].senderId = tasks[i].caller
             /\ stored[place[i]].text = tasks[i].arg
        /\ \A i, j \in appended : i # j => place[i] # place[j]

\* two appendMessage requests were in the loop together and both have returned
C13_Witness ==
  /\ Len(tasks) >= 2
  /\ tasks[1].op = "appendMessage" /\ tasks[2].op = "appendMessage"
  /\ Done(1) /\ Done(2)
  /\ Len(CaseOf(World).messages) >= 2

\* C14: when a DOCTOR's submitDiagnosis and a markRead were the two requests on
\* the case and both have returned, the pair of unread flags is the pair of one
\* of the two serial orders: the patient's flag raised and the caller's flag
\* cleared, in either order, from the pair the case started with.
C14_FlagPairSerial ==
  \A i, j \in 1 .. Len(tasks) :
    ( /\ Len(tasks) = 2 /\ Done(i) /\ Done(j)
      /\ tasks[i].op = "submitDiagnosis" /\ Role(tasks[i].caller) = DOCTOR
      /\ tasks[j].op = "markRead" )
    => LET c0        == CaseOf(LoopInitWorld)
           raised(c) == [c EXCEPT !.hasUnreadForPatient = TRUE]
           R         == Role(tasks[j].caller)
       IN  FlagPair(CaseOf(World)) \in
             { FlagPair(ClearFlag(raised(c0), R)), FlagPair(raised(ClearFlag(c0, R))) }

\* the diagnosis and the patient's markRead have both returned, the markRead
\* first: the patient's flag is up
C14_Witness ==
  /\ Len(tasks) = 2
  /\ tasks[1].op = "markRead" /\ Role(tasks[1].caller) = PATIENT
  /\ tasks[2].op = "submitDiagnosis" /\ Role(tasks[2].caller) = DOCTOR
  /\ Done(1) /\ Done(2)
  /\ FlagPair(CaseOf(World)) = << TRUE, TRUE >>

Passwords == {DemoPassword, "87654321"}
RoleNames == {DOCTOR, PATIENT}
Salts     == {"salt1", "salt2"}

\* bcrypt.hashpw(password, bcrypt.gensalt()): the hash carries its salt
hash_password(password, salt) == << "bcrypt", salt, password >>

\* bcrypt.checkpw: hashes plain_password with the salt of hashed_password
verify_password(plain_password, hashed_password) ==
  hash_password(plain_password, hashed_password[2]) = hashed_password

\* create_access_token / create_jwt: the claims of the token
create_access_token(user_id, role) == [sub |-> user_id, role |-> role]

\* _to_profile_response, and main.py's profile without password_hash
_to_profile_response(user) == [id |-> user.id, role |-> user.role, name |-> user.name]

AuthResponse(op, id, password, role, code, token, user) ==
  [op |-> op, id |-> id, password |-> password, role |-> role,
   code |-> code, token |-> token, user |-> user, detail |-> ""]

\* raise HTTPException(status_code, detail)
AuthError(op, id, password, role, code, detail) ==
  [AuthResponse(op, id, password, role, code, None, None) EXCEPT !.detail = detail]

AuthStep == UNCHANGED << engineVars, loopVars, synthVars, chatVars >>

\* register: profile_data
profile_data(id, password, role, salt) ==
  [id |-> id, role |-> role, name |-> Name(id),
   password_hash |-> hash_password(password, salt)]

\* app/routers/auth.py register
register(id, password, role, salt) ==
  /\ deployment = "app"
  /\ AuthStep
  /\ UNCHANGED users_db
  /\ LET existing == Rows(profiles, id)
     IN  IF existing # << >>
           THEN /\ auth_resp' = AuthError("register", id, password, role, 409, "id already registered")
                /\ UNCHANGED profiles
           ELSE LET user == profile_data(id, password, role, salt)
                IN  /\ profiles' = Append(profiles, user)
                    /\ auth_resp' = AuthResponse("register", id, password, role, 201,
                                                 None, Some(_to_profile_response(user)))

\* login that compares the role before it verifies the password
login_role_before_password(id, password, role) ==
  /\ deployment = "app"
  /\ AuthStep
  /\ UNCHANGED << profiles, users_db >>
  /\ LET result == Rows(profiles, id)
     IN  IF result = << >>
           THEN auth_resp' = AuthError("login", id, password, role, 401,
                                       "wrong account or password (register first)")
         ELSE IF result[1].role # role
           THEN auth_resp' = AuthError("login", id, password, role, 403,
                               IF role = DOCTOR THEN "not a doctor account"
                                                ELSE "not a patient account")
         ELSE IF ~ verify_password(password, result[1].password_hash)
           THEN auth_resp' = AuthError("login", id, password, role, 401,
                                       "wrong account or password (register first)")
         ELSE auth_resp' = AuthResponse("login", id, password, role, 200,
                             Some(create_access_token(result[1].id, result[1].role)),
                             Some(_to_profile_response(result[1])))

\* app/routers/auth.py login
login(id, password, role) ==
  /\ deployment = "app"
  /\ AuthStep
  /\ UNCHANGED << profiles, users_db >>
  /\ LET result == Rows(profiles, id)
     IN  IF result = << >>
           THEN auth_resp' = AuthError("login", id, password, role, 401,
                                       "wrong account or password (register first)")
         ELSE IF ~ verify_password(password, result[1].password_hash)
           THEN auth_resp' = AuthError("login", id, password, role, 401,
                                       "wrong account or password (register first)")
         ELSE IF result[1].role # role
           THEN auth_resp' = AuthError("login", id, password, role, 403,
                               IF role = DOCTOR THEN "not a doctor account"
                                                ELSE "not a patient account")
         ELSE auth_resp' = AuthResponse("login", id, password, role, 200,
                             Some(create_access_token(result[1].id, result[1].role)),
                             Some(_to_profile_response(result[1])))

\* register of main.py: new_user
new_user(id, password, role) ==
  [id |-> id, password_hash |-> sha256(password), role |-> role, name |-> Name(id)]

\* main.py register
main_register(id, password, role) ==
  /\ deployment = "main"
  /\ AuthStep
  /\ UNCHANGED profiles
  /\ IF id \in DOMAIN users_db
       THEN /\ auth_resp' = AuthError("register", id, password, role, 400, "id already registered")
            /\ UNCHANGED users_db
       ELSE /\ users_db' = [k \in DOMAIN users_db \cup {id} |->
                              IF k = id THEN new_user(id, password, role) ELSE users_db[k]]
            /\ auth_resp' = AuthResponse("register", id, password, role, 200, None,
                              Some(_to_profile_response(new_user(id, password, role))))

\* main.py login
main_login(id, password, role) ==
  /\ deployment = "main"
  /\ AuthStep
  /\ UNCHANGED << profiles, users_db >>
  /\ IF id \notin DOMAIN users_db \/ users_db[id].password_hash # sha256(password)
       THEN auth_resp' = AuthError("login", id, password, role, 401,
                                   "wrong id number or password")
       ELSE auth_resp' = AuthResponse("login", id, password, role, 200,
                           Some(create_access_token(users_db[id].id, users_db[id].role)),
                           Some(_to_profile_response(users_db[id])))

AuthNext ==
  \/ \E id \in Users, pw \in Passwords, role \in RoleNames, salt \in Salts :
       register(id, pw, role, salt)
  \/ \E id \in Users, pw \in Passwords, role \in RoleNames : login(id, pw, role)
  \/ \E id \in Users, pw \in Passwords, role \in RoleNames : main_register(id, pw, role)
  \/ \E id \in Users, pw \in Passwords, role \in RoleNames : main_login(id, pw, role)

SpecAuth == Init /\ [][AuthNext]_vars

\* ------------------------------------------------ the contract on accounts
\* The ids that have an account, and the stored record of one of them.
StoredIds ==
  IF deployment = "app" THEN { profiles[i].id : i \in 1 .. Len(profiles) }
                        ELSE DOMAIN users_db

Account(id) == IF deployment = "app" THEN Rows(profiles, id)[1] ELSE users_db[id]

\* password is the password of the stored account acc
PasswordOf(acc, password) ==
  IF deployment = "app" THEN verify_password(password, acc.password_hash)
                        ELSE acc.password_hash = sha256(password)

\* C17: a login with the id of an account and its password, and a role that is
\* not the role stored for the account, is answered Forbidden (403) and
\* carries no token.
C17_RoleMismatchForbidden ==
  ( /\ auth_resp.op = "login"
    /\ auth_resp.id \in StoredIds
    /\ PasswordOf(Account(auth_resp.id), auth_resp.password)
    /\ Account(auth_resp.id).role # auth_resp.role )
  => (auth_resp.code = 403 /\ auth_resp.token = None)

\* C18: no step changes or removes the stored record of an account, its role
\* included; and a register of an id that has an account is answered Conflict
\* (409) and leaves the accounts as they were.
C18_RoleFixed ==
  [][ /\ \A id \in StoredIds : id \in StoredIds' /\ Account(id)' = Account(id)
      /\ (auth_resp'.op = "register" /\ auth_resp'.id \in StoredIds)
           => /\ auth_resp'.code = 409
              /\ profiles' = profiles
              /\ users_db' = users_db ]_vars

\* ===========================================================================
\* The Report Synthesizer: analyze_multimodal of app/services/ai_service.py,
\* called by run_multimodal_analysis of app/routers/analysis.py, and
\* analyze_multimodal of main.py.  A request is served in two steps: up to the
\* call of the model, and from the model's outcome to the response.  The texts
\* of the catalogs are written in English; the prompt is kept as the two
\* features it is composed from.
\* ===========================================================================
MaxImage == 7       \* the uploaded images are the byte strings 0 .. MaxImage

FEATURE_DATABASE ==
  << [description |-> "hippocampal head volume reduced",
      regions |-> << "hippocampus CA1", "entorhinal cortex", "temporal lobe" >>,
      severity |-> "moderate", suspected |-> "AD"],
     [description |-> "amygdala-PFC connectivity weakened",
      regions |-> << "amygdala", "prefrontal cortex" >>,
      severity |-> "high", suspected |-> "BIP / SCZ"],
     [description |-> "microbleeds, WMH Fazekas 2",
      regions |-> << "basal ganglia", "centrum semiovale", "white matter" >>,
      severity |-> "moderate", suspected |-> "CSVD"],
     [description |-> "SNpc signal reduced, swallow tail sign lost",
      regions |-> << "substantia nigra", "striatum" >>,
      severity |-> "high", suspected |-> "PD"],
     [description |-> "left frontal round lesion",
      regions |-> << "left frontal lobe" >>,
      severity |-> "high", suspected |-> "meningioma / glioma"],
     [description |-> "Dawson's fingers",
      regions |-> << "corpus callosum", "periventricular white matter" >>,
      severity |-> "moderate", suspected |-> "MS"],
     [description |-> "no abnormality",
      regions |-> << "whole brain" >>,
      severity |-> "healthy", suspected |-> "CN"] >>

GENE_DATABASE ==
  << [gene_summary |-> "TREM2, CD33 up in microglia",
      risk_genes |-> << "APOE-e4", "TREM2", "CD33" >>,
      cell_type |-> "Microglia & Astrocytes"],
     [gene_summary |-> "synaptic genes down in excitatory neurons",
      risk_genes |-> << "SYT1", "NRXN1", "GRIN2A" >>,
      cell_type |-> "Glutamatergic Neurons"],
     [gene_summary |-> "TH, DAT down, PINK1 abnormal",
      risk_genes |-> << "SNCA", "PINK1", "LRRK2" >>,
      cell_type |-> "Dopaminergic Neurons"],
     [gene_summary |-> "normal expression profile",
      risk_genes |-> << >>,
      cell_type |-> "Normal"] >>

\* The uploads: an image is its byte string; a gene file is absent, or has a
\* size in bytes and a filename of some length.
Images    == 0 .. MaxImage
GeneFiles == { None } \cup
             { Some([size |-> s, filename_len |-> n]) : s \in {0, 1}, n \in {0, 5, 6} }

\* int(hashlib.md5(image_contents).hexdigest(), 16): a digest that tells the
\* images of the model apart and reaches every entry of the catalog.
md5(image_contents) == image_contents * 3 + 3

\* seed_idx, as an index of the sequence (which counts from 1)
seed_idx(image_contents) == (md5(image_contents) % Len(FEATURE_DATABASE)) + 1

\* gene_feature_text of ai_service.py: the placeholder unless both the contents
\* and the filename are non-empty
gene_feature_text(gene) ==
  IF gene # None /\ gene[1].size > 0 /\ gene[1].filename_len > 0
    THEN LET gene_data == GENE_DATABASE[(gene[1].filename_len % Len(GENE_DATABASE)) + 1]
         IN  [provided |-> TRUE, gene_summary |-> gene_data.gene_summary,
              risk_genes |-> gene_data.risk_genes, cell_type |-> gene_data.cell_type]
    ELSE [provided |-> FALSE]

\* gene_feature_text of main.py: the placeholder unless a gene file was sent
main_gene_feature_text(gene) ==
  IF gene # None
    THEN LET gene_data == GENE_DATABASE[(gene[1].filename_len % Len(GENE_DATABASE)) + 1]
         IN  [provided |-> TRUE, gene_summary |-> gene_data.gene_summary,
              risk_genes |-> gene_data.risk_genes]
    ELSE [provided |-> FALSE]

\* What the model call may end in: a text, an exception of the client (no
\* connection, timeout), a response with a status other than 200, or a
\* response without a candidate text.
ModelTexts ==
  { [fenced |-> f, content |-> c] :
      f \in BOOLEAN, c \in {"report_json", "array_json", "prose", "truncated_json"} }

ModelOutcomes ==
  { [kind |-> "text", text |-> t] : t \in ModelTexts } \cup
  { [kind |-> "raises"], [kind |-> "no_candidates"] } \cup
  { [kind |-> "status", status |-> s] : s \in {429, 503} }

\* A report as the prompt asks the model for it.
ModelReport ==
  [summary             |-> << "fusion summary" >>,
   detailedFindings    |-> << "findings" >>,
   regions             |-> << [name |-> "striatum", description |-> "uptake reduced",
                               score |-> [num |-> 6, den |-> 10], level |-> "Moderate"] >>,
   recommendation      |-> "follow-up",
   diseaseRisks        |-> << [name |-> "PD", probability |-> 60] >>,
   gwasAnalysis        |-> << >>,
   modelConfidence     |-> << >>,
   lifecycleProjection |-> << >>]

\* json.loads: the value of a text that is JSON, None for a JSONDecodeError
json_loads(content) ==
  CASE content = "report_json" -> Some(ModelReport)
    [] content = "array_json"  -> Some([items |-> << >>])
    [] OTHER                   -> None

\* ai_service.py: the code fences are removed before json.loads
parse_cleaned(text) == json_loads(text.content)

\* main.py: json.loads of the text as it came
parse_raw(text) == IF text.fenced THEN None ELSE json_loads(text.content)

\* "score": 0.8
FallbackScore == [num |-> 8, den |-> 10]

\* fallback regions with the score written as a percentage
fallback_regions_percent(visual_feature) ==
  [i \in 1 .. Len(visual_feature.regions) |->
     [name |-> visual_feature.regions[i], description |-> "abnormal signal",
      score |-> [num |-> 80, den |-> 10], level |-> "High Risk"]]

\* fallback regions listed from the last affected region to the first
fallback_regions_reversed(visual_feature) ==
  [i \in 1 .. Len(visual_feature.regions) |->
     [name |-> visual_feature.regions[Len(visual_feature.regions) + 1 - i],
      description |-> "abnormal signal",
      score |-> FallbackScore, level |-> "High Risk"]]

\* the regions of both fallback reports
fallback_regions(visual_feature) ==
  [i \in 1 .. Len(visual_feature.regions) |->
     [name |-> visual_feature.regions[i], description |-> "abnormal signal",
      score |-> FallbackScore, level |-> "High Risk"]]

\* ai_service.py: the fallback response
fallback_report(visual_feature, gene_text) ==
  [summary             |-> << "AI fusion analysis: imaging shows ",
                              visual_feature.regions[1], " abnormal" >>,
   detailedFindings    |-> << visual_feature.description, gene_text >>,
   regions             |-> fallback_regions(visual_feature),
   recommendation      |-> "further examination advised",
   diseaseRisks        |-> << >>,
   gwasAnalysis        |-> << >>,
   modelConfidence     |-> << >>,
   lifecycleProjection |-> << >>]

\* main.py: the fallback response
main_fallback_report(visual_feature) ==
  [summary             |-> << "AI analysis: ", visual_feature.regions[1], " abnormal" >>,
   detailedFindings    |-> << visual_feature.description >>,
   regions             |-> fallback_regions(visual_feature),
   recommendation      |-> "further examination advised",
   diseaseRisks        |-> << >>,
   gwasAnalysis        |-> << >>,
   modelConfidence     |-> << >>,
   lifecycleProjection |-> << >>]

SynthStep == UNCHANGED << engineVars, loopVars, authVars, chatVars >>

\* The names under which an image is uploaded.
ImageFilenames == {"scan.png", "mri.dcm"}

\* the catalog entry is taken at an index drawn from the image's name
Calling_seeded_by_filename(caller, image, image_filename, gene, gene_text) ==
  [pc |-> "calling", caller |-> caller, image |-> image,
   image_filename |-> image_filename, gene |-> gene,
   visual_feature |->
     FEATURE_DATABASE[IF image_filename = "scan.png" THEN seed_idx(image) ELSE 1],
   gene_feature_text |-> gene_text, calls |-> 1]

\* The request up to the call of the model: the file name of the image goes
\* into the prompt only, the caller into the saved row only.
Calling(caller, image, image_filename, gene, gene_text) ==
  [pc |-> "calling", caller |-> caller, image |-> image,
   image_filename |-> image_filename, gene |-> gene,
   visual_feature |-> FEATURE_DATABASE[seed_idx(image)],
   gene_feature_text |-> gene_text, calls |-> 1]

\* the report is completed with an empty summary when it has none
Answered_summary_filled_in(a, outcome, code, report, saved) ==
  [pc |-> "done", caller |-> a.caller, image |-> a.image,
   image_filename |-> a.image_filename, gene |-> a.gene,
   visual_feature |-> a.visual_feature, gene_feature_text |-> a.gene_feature_text,
   calls |-> a.calls, outcome |-> outcome, code |-> code,
   report |-> IF report = None THEN None
              ELSE Some([f \in DOMAIN report[1] \cup {"summary"} |->
                           IF f \in DOMAIN report[1] THEN report[1][f] ELSE << >>]),
   saved |-> saved]

\* a request whose model call failed invokes the model a second time
Answered_invokes_again(a, outcome, code, report, saved) ==
  IF code # 200 /\ a.calls < 2
    THEN [a EXCEPT !.calls = a.calls + 1]
    ELSE [pc |-> "done", caller |-> a.caller, image |-> a.image,
          image_filename |-> a.image_filename, gene |-> a.gene,
          visual_feature |-> a.visual_feature,
          gene_feature_text |-> a.gene_feature_text,
          calls |-> a.calls, outcome |-> outcome, code |-> code,
          report |-> report, saved |-> saved]

\* The response: the HTTP status, the report it carries, and whether the
\* report was inserted into analysis_results.
Answered(a, outcome, code, report, saved) ==
  [pc |-> "done", caller |-> a.caller, image |-> a.image,
   image_filename |-> a.image_filename, gene |-> a.gene,
   visual_feature |-> a.visual_feature, gene_feature_text |-> a.gene_feature_text,
   calls |-> a.calls, outcome |-> outcome, code |-> code, report |-> report,
   saved |-> saved]

\* analysis.py run_multimodal_analysis and ai_service.py analyze_multimodal, up
\* to model.generate_content
run_multimodal_analysis(current_user, image, image_filename, gene) ==
  /\ deployment = "app"
  /\ analysis.pc \in {"idle", "done"}
  /\ analysis' = Calling(current_user, image, image_filename, gene,
                         gene_feature_text(gene))
  /\ SynthStep

\* ... and from the outcome of generate_content on: an exception leaves
\* analyze_multimodal and becomes the router's 500
analyze_multimodal_returns(outcome) ==
  /\ deployment = "app"
  /\ analysis.pc = "calling"
  /\ SynthStep
  /\ IF outcome.kind # "text"
       THEN analysis' = Answered(analysis, outcome, 500, None, FALSE)
     ELSE LET parsed == parse_cleaned(outcome.text)
          IN  IF parsed # None
                THEN analysis' = Answered(analysis, outcome, 200, parsed, TRUE)
                ELSE analysis' = Answered(analysis, outcome, 200,
                       Some(fallback_report(analysis.visual_feature,
                                            analysis.gene_feature_text)), TRUE)

\* main.py analyze_multimodal, up to await call_gemini; the endpoint reads no
\* credential: u only records who sent the request.
main_analyze_multimodal(u, image, image_filename, gene) ==
  /\ deployment = "main"
  /\ analysis.pc \in {"idle", "done"}
  /\ analysis' = Calling(u, image, image_filename, gene,
                         main_gene_feature_text(gene))
  /\ SynthStep

\* ... and from the outcome of call_gemini on: call_gemini raises HTTPException
\* with the status of the model's response, analyze_multimodal re-raises it and
\* turns every other exception into a 500
main_call_gemini_returns(outcome) ==
  /\ deployment = "main"
  /\ analysis.pc = "calling"
  /\ SynthStep
  /\ CASE outcome.kind = "status" ->
            analysis' = Answered(analysis, outcome, outcome.status, None, FALSE)
       [] outcome.kind \in {"raises", "no_candidates"} ->
            analysis' = Answered(analysis, outcome, 500, None, FALSE)
       [] outcome.kind = "text" ->
            LET parsed == parse_raw(outcome.text)
            IN  IF parsed # None
                  THEN analysis' = Answered(analysis, outcome, 200, parsed, FALSE)
                  ELSE analysis' = Answered(analysis, outcome, 200,
                         Some(main_fallback_report(analysis.visual_feature)), FALSE)

SynthNext ==
  \/ \E current_user \in Users, image \in Images,
        image_filename \in ImageFilenames, gene \in GeneFiles :
       run_multimodal_analysis(current_user, image, image_filename, gene)
  \/ \E outcome \in ModelOutcomes : analyze_multimodal_returns(outcome)
  \/ \E u \in Callers, image \in Images,
        image_filename \in ImageFilenames, gene \in GeneFiles :
       main_analyze_multimodal(u, image, image_filename, gene)
  \/ \E outcome \in ModelOutcomes : main_call_gemini_returns(outcome)

SpecSynth == Init /\ [][SynthNext]_vars

\* ------------------------------------------- the contract of the Synthesizer
ContractFields ==
  {"summary", "detailedFindings", "regions", "recommendation", "diseaseRisks",
   "gwasAnalysis", "modelConfidence", "lifecycleProjection"}

Levels == {"Low", "Moderate", "High Risk"}

\* AIRegionRisk.score: ge=0, le=1
InUnitInterval(score) == 0 <= score.num /\ score.num <= score.den

\* AIAnalysisReport, with a summary and a list of regions that are not empty
SatisfiesContract(report) ==
  /\ DOMAIN report = ContractFields
  /\ \E k \in 1 .. Len(report.summary) : report.summary[k] # ""
  /\ Len(report.regions) > 0
  /\ \A k \in 1 .. Len(report.regions) :
       /\ InUnitInterval(report.regions[k].score)
       /\ report.regions[k].level \in Levels

\* The model call of the answered request failed.
ModelFailed == analysis.outcome.kind \in {"raises", "status", "no_candidates"}

\* The model call of the answered request returned a text that json.loads
\* rejects.
ParseFailed ==
  /\ analysis.outcome.kind = "text"
  /\ IF deployment = "app" THEN parse_cleaned(analysis.outcome.text) = None
                           ELSE parse_raw(analysis.outcome.text) = None

\* The fallback report of the answered request.
FallbackOfRequest ==
  IF deployment = "app"
    THEN fallback_report(FEATURE_DATABASE[seed_idx(analysis.image)],
                         gene_feature_text(analysis.gene))
    ELSE main_fallback_report(FEATURE_DATABASE[seed_idx(analysis.image)])

\* C19: an analysis request whose model call failed (exception, timeout, status
\* other than 200, no candidate text) or returned a text that is not JSON is
\* answered 200 with the fallback report of its image and gene file.
C19_ModelFailureFallsBack ==
  (analysis.pc = "done" /\ (ModelFailed \/ ParseFailed))
    => /\ analysis.code = 200
       /\ analysis.report = Some(FallbackOfRequest)

\* C20: an analysis request whose model text is not JSON is answered 200 with a
\* report that has the eight fields of the contract, a summary and a list of
\* regions that are not empty, and in every region a score in [0,1] and a
\* level among Low, Moderate and High Risk.
C20_FallbackSatisfiesContract ==
  (analysis.pc = "done" /\ ParseFailed)
    => /\ analysis.code = 200
       /\ analysis.report # None
       /\ SatisfiesContract(analysis.report[1])

\* a request with a gene file was answered with the fallback report of a
\* catalog entry of three regions, after a text that is not JSON
C20_Witness ==
  /\ analysis.pc = "done"
  /\ ParseFailed
  /\ analysis.gene # None
  /\ analysis.report # None
  /\ Len(analysis.report[1].regions) = 3


\* The index of a catalog entry, counted from 0 as the code counts.
CatalogIndex(entry) ==
  (CHOOSE k \in 1 .. Len(FEATURE_DATABASE) : FEATURE_DATABASE[k] = entry) - 1

\* C21: every analysis request selects the catalog entry at the index
\* fingerprint(image) mod catalog size, an index within the catalog; a request
\* that follows an answered request with the same image bytes selects the same
\* entry, whatever the file name, gene file and caller of the two requests and
\* whatever the outcome of the first.
C21_FeatureOfImageBytes ==
  [][ analysis'.pc = "calling" =>
        /\ \E k \in 0 .. (Len(FEATURE_DATABASE) - 1) :
             /\ k = md5(analysis'.image) % Len(FEATURE_DATABASE)
             /\ analysis'.visual_feature = FEATURE_DATABASE[k + 1]
        /\ (analysis.pc = "done" /\ analysis.image = analysis'.image)
             => CatalogIndex(analysis'.visual_feature)
                  = CatalogIndex(analysis.visual_feature) ]_vars

\* a request with the image bytes of the request answered before it, under
\* another file name, from another caller, with a gene file where the first had
\* none, after a failure of the model: it selected the same catalog entry
C21_Witness ==
  /\ analysis.pc = "done"
  /\ analysis.outcome.kind # "text"
  /\ analysis.gene = None
  /\ analysis.image_filename = "scan.png"
  /\ analysis.caller = "patient_demo"
  /\ ENABLED ( /\ SynthNext
               /\ analysis'.pc = "calling"
               /\ analysis'.image = analysis.image
               /\ analysis'.image_filename = "mri.dcm"
               /\ analysis'.caller = "doctor_demo"
               /\ analysis'.gene # None )


\* The text of the answered request is JSON as the model sent it.
TextIsJson ==
  /\ analysis.outcome.kind = "text"
  /\ ~ analysis.outcome.text.fenced
  /\ json_loads(analysis.outcome.text.content) # None

C23_LastWriteWins ==
  [][ (Served("submitDiagnosis") /\ Succeeded(resp')
         /\ Exists(StoredCases, resp'.cid)
         /\ StoredCase(resp'.cid).status = COMPLETED)
        => LET after == Rows(StoredCases', resp'.cid)[1]
           IN  /\ after.status = COMPLETED
               /\ after.doctorFeedback = Some(resp'.arg)
               /\ after.doctorName = Some(Name(resp'.caller))
               /\ after.replyTimestamp = Some(FmtYMDHM(now)) ]_vars

\* a case completed with feedback fb1 in minute 0, on which, a minute later, a
\* submitDiagnosis with feedback fb2 is served and succeeds
C23_Witness ==
  /\ now = 1
  /\ \E i \in 1 .. Len(StoredCases) :
       /\ StoredCases[i].status = COMPLETED
       /\ StoredCases[i].doctorFeedback = Some("fb1")
       /\ StoredCases[i].replyTimestamp = Some(FmtYMDHM(0))
       /\ ENABLED ( /\ Next
                    /\ Served("submitDiagnosis")
                    /\ Succeeded(resp')
                    /\ resp'.cid = StoredCases[i].id
                    /\ resp'.arg = "fb2" )


\* The step writes to neither program's store, and so changes no stored case
\* and no stored message: the step properties below hold of such a step
\* without a look at the cases.
StoreUntouched == UNCHANGED << medical_cases, case_messages, cases_db >>

\* The three diagnosis fields of a case.
Diagnosis(c) == << c.doctorFeedback, c.doctorName, c.replyTimestamp >>

\* C24, as the specification words it: a diagnosis field of a case that is not
\* null keeps its value in every later step.
C24_DiagnosisImmutable ==
  [][ \A i \in 1 .. Len(StoredCases) :
        LET before == StoredCases[i]
            after  == Rows(StoredCases', before.id)[1]
        IN  /\ before.doctorFeedback # None
                 => after.doctorFeedback = before.doctorFeedback
            /\ before.doctorName # None
                 => after.doctorName = before.doctorName
            /\ before.replyTimestamp # None
                 => after.replyTimestamp = before.replyTimestamp ]_vars

\* The stored cases without their messages: for the router the rows of
\* medical_cases as _build_case_response names their fields.
StoredCaseHeads ==
  IF deployment = "app"
    THEN [i \in 1 .. Len(medical_cases) |-> _build_case_response(medical_cases[i], << >>)]
    ELSE cases_db

\* C24, amended: the diagnosis fields of a case change only in a step that
\* serves a successful submitDiagnosis on that case; list, view, create,
\* appendMessage, markRead and every rejected request leave them as they are,
\* null or not.
C24_DiagnosisChangedOnlyBySubmit ==
  [][ StoreUntouched \/
      \A stored \in { StoredCaseHeads } : \A later \in { StoredCaseHeads' } :
      \A i \in 1 .. Len(stored) :
        LET before == stored[i]
            after  == Rows(later, before.id)[1]
        IN  Diagnosis(after) # Diagnosis(before)
              => /\ Served("submitDiagnosis")
                 /\ Succeeded(resp')
                 /\ resp'.cid = before.id ]_vars

\* the patient has viewed a case with a diagnosis, which cleared the patient's
\* unread flag and left the diagnosis in place
C24_Witness ==
  /\ resp.op = "view"
  /\ Succeeded(resp)
  /\ Role(resp.caller) = PATIENT
  /\ DiagnosisSet(resp.body[1])
  /\ DiagnosisSet(StoredCase(resp.cid))
  /\ Diagnosis(StoredCase(resp.cid)) = Diagnosis(resp.body[1])


\* s is an initial part of t.
IsPrefix(s, t) == Len(s) <= Len(t) /\ SubSeq(t, 1, Len(s)) = s

\* The stored cases with their messages as the program reads them back: for
\* the router the id of each row of medical_cases with the rows of
\* case_messages in the order of the router's query.
StoredCasesRead ==
  IF deployment = "app"
    THEN [i \in 1 .. Len(medical_cases) |->
            [id |-> medical_cases[i].id, messages |-> SelectMessages(medical_cases[i].id)]]
    ELSE cases_db

\* C25: in every step the stored case ids before the step are among those
\* after it, and the message sequence of each stored case before the step is
\* an initial part of its message sequence after it; so no sequence of
\* operations loses a case or a message.
C25_NothingDeleted ==
  [][ StoreUntouched \/
      \A stored \in { StoredCasesRead } : \A after \in { StoredCasesRead' } :
        \A i \in 1 .. Len(stored) :
          \E j \in 1 .. Len(after) :
            /\ after[j].id = stored[i].id
            /\ IsPrefix(stored[i].messages, after[j].messages) ]_vars

\* two cases are stored, and one of them holds a second message appended after
\* its first
C25_Witness ==
  /\ Len(StoredCases) >= 2
  /\ resp.op = "appendMessage"
  /\ Succeeded(resp)
  /\ Len(StoredCase(resp.cid).messages) = 2
  /\ StoredCase(resp.cid).messages[2].id = resp.msg[1].id


\* The stored messages, of all cases.
StoredMessages ==
  IF deployment = "app"
    THEN { CaseMessageResponse(case_messages[k]) : k \in 1 .. Len(case_messages) }
    ELSE UNION { Range(cases_db[i].messages) : i \in 1 .. Len(cases_db) }

\* The fields of a message that the specification fixes at creation.
MessageFields(m) ==
  << m.id, m.senderId, m.senderName, m.senderRole, m.text, m.timestamp >>

\* C26: in every step each stored message keeps its id, senderId, senderName,
\* senderRole, text and timestamp, and each stored case keeps its patientId.
C26_MessagesAndOwnerImmutable ==
  [][ StoreUntouched \/
      \A stored \in { StoredCaseHeads } : \A after \in { StoredCaseHeads' } :
      \A msgs \in { StoredMessages' } :
        /\ \A m \in StoredMessages :
             /\ \E n \in msgs : n.id = m.id
             /\ \A n \in msgs : n.id = m.id => MessageFields(n) = MessageFields(m)
        /\ \A i \in 1 .. Len(stored) :
             \A j \in 1 .. Len(after) :
               after[j].id = stored[i].id
                 => after[j].patientId = stored[i].patientId ]_vars

\* a diagnosis was submitted on a case that holds a message of its patient:
\* the case is still the patient's and the message is as the patient sent it
C26_Witness ==
  /\ resp.op = "submitDiagnosis"
  /\ Succeeded(resp)
  /\ Role(resp.caller) = DOCTOR
  /\ LET c == StoredCase(resp.cid)
     IN  /\ c.patientId = "patient_demo"
         /\ Len(c.messages) = 1
         /\ c.messages[1].senderId = "patient_demo"
         /\ c.messages[1].senderRole = PATIENT
         /\ c.messages[1].text = "hello"


\* Case a was created after case b: both programs issue the ids of the model
\* in creation order (time_ns in the router, the next key of cases_db in
\* main.py).
CreatedLater(a, b) == a.id > b.id

\* C27: in the result of a list, a case that was created later than another
\* case of the result stands before it.
C27_ListNewestFirst ==
  (resp.op = "list" /\ Succeeded(resp))
    => \A i, j \in 1 .. Len(resp.body) :
         CreatedLater(resp.body[i], resp.body[j]) => i < j


\* C30: an appendMessage of a known caller on a COMPLETED case succeeds, adds
\* the message at the end of the case's messages and leaves the status
\* COMPLETED and doctorFeedback, doctorName and replyTimestamp as they were.
C30_AppendOnCompleted ==
  [][ (Served("appendMessage") /\ resp'.caller \in Users
         /\ Exists(StoredCases, resp'.cid)
         /\ StoredCase(resp'.cid).status = COMPLETED)
        => LET before == StoredCase(resp'.cid)
               after  == Rows(StoredCases', resp'.cid)[1]
           IN  /\ Succeeded(resp')
               /\ Len(resp'.msg) = 1
               /\ resp'.msg[1].text = resp'.arg
               /\ after.messages = Append(before.messages, resp'.msg[1])
               /\ after.status = COMPLETED
               /\ after.doctorFeedback = before.doctorFeedback
               /\ after.doctorName = before.doctorName
               /\ after.replyTimestamp = before.replyTimestamp ]_vars

\* the patient's message was appended to a case that carries a diagnosis: the
\* case is completed, and since no operation completes a case while appending,
\* it was completed when the message arrived
C30_Witness ==
  /\ resp.op = "appendMessage"
  /\ Succeeded(resp)
  /\ Role(resp.caller) = PATIENT
  /\ LET c == StoredCase(resp.cid)
     IN  /\ c.status = COMPLETED
         /\ c.doctorFeedback = Some("fb1")
         /\ c.messages # << >>
         /\ c.messages[Len(c.messages)] = resp.msg[1]


\* ------------------------------------------- the Conversational Assistant
\* app/routers/analysis.py ai_chat with app/services/ai_service.py
\* chat_with_ai, and main.py chat_endpoint with call_gemini.  One chat request
\* is in flight at a time: chat holds the request, what was sent to the model,
\* and, once answered, the outcome of the model call and the response.
MaxTurns == 3       \* messages in the list of one chat request

\* the roles of the messages of a request: the three the endpoint documents
\* and one that neither program knows
ChatRoles == {"system", "user", "assistant", "tool"}

\* the outcomes of the model call of a chat request: a text, an exception
\* (timeout, connection, blocked response), a response without candidate text,
\* a status other than 200
ChatOutcomes ==
  { [kind |-> "text", text |-> "reply"], [kind |-> "raises"],
    [kind |-> "no_candidates"] } \cup
  { [kind |-> "status", status |-> s] : s \in {429, 503} }

\* the content of the message at each place of the list: the texts differ, so
\* that a forwarded text tells which message it came from
ContentAt == << "m1", "m2", "m3", "m4" >>

\* req.messages: the role-tagged messages of a request
ChatMessageLists ==
  UNION { { [i \in 1 .. n |-> [role |-> roles[i], content |-> ContentAt[i]]] :
              roles \in [1 .. n -> ChatRoles] } : n \in 0 .. MaxTurns }

\* chat_with_ai: system_text after the loop, "" when there is no system message
system_text(messages) ==
  LET sys == SelectSeq(messages, LAMBDA m : m.role = "system")
  IN  IF sys = << >> THEN "" ELSE sys[Len(sys)].content

\* chat_with_ai: chat_parts after the loop
chat_parts(messages) ==
  LET kept == SelectSeq(messages, LAMBDA m : m.role \in {"user", "assistant", "model"})
  IN  [i \in 1 .. Len(kept) |->
         [role  |-> IF kept[i].role = "user" THEN "user" ELSE "model",
          parts |-> << kept[i].content >>]]

\* chat_with_ai: the history given to model.start_chat
chat_history(messages) ==
  IF Len(chat_parts(messages)) > 1
    THEN SubSeq(chat_parts(messages), 1, Len(chat_parts(messages)) - 1)
    ELSE << >>

\* chat_with_ai: last_msg
last_msg(messages) ==
  IF system_text(messages) # "" /\ chat_parts(messages) = << >>
    THEN system_text(messages)
  ELSE IF chat_parts(messages) # << >>
    THEN chat_parts(messages)[Len(chat_parts(messages))].parts[1]
  ELSE ""

\* chat_with_ai: full_prompt, the pieces of the concatenation
full_prompt(messages) ==
  IF system_text(messages) # "" /\ chat_parts(messages) # << >>
    THEN << system_text(messages), "\n\n", last_msg(messages) >>
    ELSE << last_msg(messages) >>

\* generation_config / generationConfig: the temperature, in tenths
temperature(json_mode) == IF json_mode THEN 3 ELSE 10

\* ... and the response MIME type
response_mime_type(json_mode) == IF json_mode THEN Some("application/json") ELSE None

\* chat_with_ai: what start_chat and send_message hand to the model: the
\* history, then the prompt as a turn of the user (ChatSession.send_message
\* sends its content under the role "user")
chat_with_ai_request(messages, json_mode) ==
  [contents |->
     chat_history(messages) \o << [role |-> "user", parts |-> full_prompt(messages)] >>,
   systemInstruction |-> None,
   temperature |-> temperature(json_mode),
   responseMimeType |-> response_mime_type(json_mode)]

\* call_gemini: system_instruction after the loop
system_instruction(messages) ==
  LET sys == SelectSeq(messages, LAMBDA m : m.role = "system")
  IN  IF sys = << >> THEN None ELSE Some(sys[Len(sys)].content)

\* call_gemini: contents after the loop
contents(messages) ==
  LET kept == SelectSeq(messages, LAMBDA m : m.role \in {"user", "model", "assistant"})
  IN  [i \in 1 .. Len(kept) |->
         [role  |-> IF kept[i].role = "assistant" THEN "model" ELSE kept[i].role,
          parts |-> << kept[i].content >>]]

\* call_gemini: body
call_gemini_body(messages, json_mode) ==
  [contents |-> contents(messages),
   systemInstruction |-> system_instruction(messages),
   temperature |-> temperature(json_mode),
   responseMimeType |-> response_mime_type(json_mode)]

\* the handler that answers a failed call with a reply of its own
ai_chat_response_apologises(outcome) ==
  IF outcome.kind = "text"
    THEN [code |-> 200, content |-> Some(outcome.text)]
    ELSE [code |-> 200, content |-> Some("sorry")]

\* ai_chat: the response after chat_with_ai returned or raised
ai_chat_response(outcome) ==
  IF outcome.kind = "text"
    THEN [code |-> 200, content |-> Some(outcome.text)]
    ELSE [code |-> 500, content |-> None]

\* chat_endpoint: the response after call_gemini returned or raised; the
\* HTTPException of call_gemini is raised again as it is
chat_endpoint_response(outcome) ==
  CASE outcome.kind = "text"   -> [code |-> 200, content |-> Some(outcome.text)]
    [] outcome.kind = "status" -> [code |-> outcome.status, content |-> None]
    [] OTHER                   -> [code |-> 500, content |-> None]

ChatStep == UNCHANGED << engineVars, loopVars, authVars, synthVars >>

\* The request up to the call of the model.
ChatCalling(messages, json_mode, body) ==
  [pc |-> "calling", messages |-> messages, json_mode |-> json_mode,
   body |-> body, calls |-> 1]

\* The response to the caller.
ChatAnswered(c, outcome, response) ==
  [pc |-> "done", messages |-> c.messages, json_mode |-> c.json_mode,
   body |-> c.body, calls |-> c.calls, outcome |-> outcome,
   code |-> response.code, reply |-> response.content]

\* ai_chat and chat_with_ai, up to chat.send_message
ai_chat(messages, json_mode) ==
  /\ deployment = "app"
  /\ chat.pc \in {"idle", "done"}
  /\ chat' = ChatCalling(messages, json_mode, chat_with_ai_request(messages, json_mode))
  /\ ChatStep

\* ... and from the outcome of send_message on
chat_with_ai_returns(outcome) ==
  /\ deployment = "app"
  /\ chat.pc = "calling"
  /\ chat' = ChatAnswered(chat, outcome, ai_chat_response(outcome))
  /\ ChatStep

\* chat_endpoint and call_gemini, up to client.post
chat_endpoint(messages, json_mode) ==
  /\ deployment = "main"
  /\ chat.pc \in {"idle", "done"}
  /\ chat' = ChatCalling(messages, json_mode, call_gemini_body(messages, json_mode))
  /\ ChatStep

\* ... and from the outcome of client.post on
call_gemini_returns(outcome) ==
  /\ deployment = "main"
  /\ chat.pc = "calling"
  /\ chat' = ChatAnswered(chat, outcome, chat_endpoint_response(outcome))
  /\ ChatStep

ChatNext ==
  \/ \E messages \in ChatMessageLists, json_mode \in BOOLEAN : ai_chat(messages, json_mode)
  \/ \E outcome \in ChatOutcomes : chat_with_ai_returns(outcome)
  \/ \E messages \in ChatMessageLists, json_mode \in BOOLEAN :
       chat_endpoint(messages, json_mode)
  \/ \E outcome \in ChatOutcomes : call_gemini_returns(outcome)

SpecChat == Init /\ [][ChatNext]_vars

\* ----------------------------------------- the contract of the Assistant
\* The model call of the answered chat request failed.
ChatModelFailed == chat.outcome.kind \in {"raises", "status", "no_candidates"}

\* C28: a chat request whose model call failed (exception, timeout, status
\* other than 200, no candidate text) is answered with an error status and
\* carries no reply.
C28_ChatFailurePropagates ==
  (chat.pc = "done" /\ ChatModelFailed)
    => /\ chat.code >= 400
       /\ chat.reply = None

\* the model answered 503 to a chat request that ends with a turn of the
\* user, and the caller got an error without a reply
C28_Witness ==
  /\ chat.pc = "done"
  /\ chat.outcome.kind = "status"
  /\ chat.outcome.status = 503
  /\ chat.messages # << >>
  /\ chat.messages[Len(chat.messages)].role = "user"
  /\ chat.code >= 500
  /\ chat.reply = None


\* The system messages of the request in flight, and the number of places at
\* which the text of one of them goes to the model: as systemInstruction, or as
\* a piece of a turn.
SystemTexts ==
  { chat.messages[i].content :
      i \in { k \in 1 .. Len(chat.messages) : chat.messages[k].role = "system" } }

SystemInstructionsForwarded ==
  (IF chat.body.systemInstruction # None THEN 1 ELSE 0)
  + Cardinality({ << i, k >> \in (1 .. Len(chat.body.contents)) \X (1 .. MaxTurns) :
                    /\ k <= Len(chat.body.contents[i].parts)
                    /\ chat.body.contents[i].parts[k] \in SystemTexts })

\* The turns that go to the model: the role of each, and the text of the
\* message it carries (the last piece of its parts).
ForwardedTurns ==
  [i \in 1 .. Len(chat.body.contents) |->
     [role |-> chat.body.contents[i].role,
      text |-> chat.body.contents[i].parts[Len(chat.body.contents[i].parts)]]]

\* The user and assistant turns of the request, in their order, the assistant
\* turns under the model role.
ExpectedTurns ==
  LET kept == SelectSeq(chat.messages, LAMBDA m : m.role \in {"user", "assistant"})
  IN  [i \in 1 .. Len(kept) |->
         [role |-> IF kept[i].role = "assistant" THEN "model" ELSE "user",
          text |-> kept[i].content]]

\* C29: of every chat request at most one system instruction goes to the
\* model, and the user and assistant turns of the request go to the model in
\* their order, none left out, each assistant turn under the model role.
C29_TurnsForwarded ==
  chat.pc \in {"calling", "done"}
    => /\ SystemInstructionsForwarded <= 1
       /\ SelectSeq(ForwardedTurns, LAMBDA t : t \in Range(ExpectedTurns)) = ExpectedTurns


\* C31: the fallback report of an analysis request has one region for each
\* affected region of the catalog entry the request selected, in the order of
\* the entry and under the same names, each with score 0.8 and level
\* "High Risk", and its diseaseRisks, gwasAnalysis, modelConfidence and
\* lifecycleProjection are empty.
C31_FallbackFromCatalogEntry ==
  (analysis.pc = "done" /\ ParseFailed)
    => /\ analysis.report # None
       /\ analysis.visual_feature = FEATURE_DATABASE[seed_idx(analysis.image)]
       /\ Len(analysis.report[1].regions) = Len(analysis.visual_feature.regions)
       /\ \A i \in 1 .. Len(analysis.visual_feature.regions) :
            /\ analysis.report[1].regions[i].name = analysis.visual_feature.regions[i]
            /\ analysis.report[1].regions[i].score = [num |-> 8, den |-> 10]
            /\ analysis.report[1].regions[i].level = "High Risk"
       /\ analysis.report[1].diseaseRisks = << >>
       /\ analysis.report[1].gwasAnalysis = << >>
       /\ analysis.report[1].modelConfidence = << >>
       /\ analysis.report[1].lifecycleProjection = << >>

\* a request without a gene file selected a catalog entry of two regions and
\* was answered with the fallback report, whose regions are those two
C31_Witness ==
  /\ analysis.pc = "done"
  /\ ParseFailed
  /\ analysis.gene = None
  /\ Len(analysis.visual_feature.regions) = 2
  /\ analysis.report # None
  /\ analysis.report[1].regions[2].name = analysis.visual_feature.regions[2]


\* ------------------------------------------------------------------------
\* The core serving analysis and chat requests side by side.  The two
\* handlers share no state; an analysis request and a chat request may both
\* be waiting for the model (main.py awaits the HTTP client).  The inputs
\* are a part of those of SpecSynth and SpecChat, every outcome of the model
\* is kept.

\* the uploaded images of the side-by-side runs
CoreImages == {0, 1}

\* the message lists of the side-by-side runs: none or one message
CoreMessageLists == { messages \in ChatMessageLists : Len(messages) <= 1 }

CoreNext ==
  \/ \E image \in CoreImages :
       run_multimodal_analysis("patient_demo", image, "scan.png", None)
  \/ \E outcome \in ModelOutcomes : analyze_multimodal_returns(outcome)
  \/ \E image \in CoreImages :
       main_analyze_multimodal(Anon, image, "scan.png", None)
  \/ \E outcome \in ModelOutcomes : main_call_gemini_returns(outcome)
  \/ \E messages \in CoreMessageLists, json_mode \in BOOLEAN :
       ai_chat(messages, json_mode)
  \/ \E outcome \in ChatOutcomes : chat_with_ai_returns(outcome)
  \/ \E messages \in CoreMessageLists, json_mode \in BOOLEAN :
       chat_endpoint(messages, json_mode)
  \/ \E outcome \in ChatOutcomes : call_gemini_returns(outcome)

SpecCore == Init /\ [][CoreNext]_vars

\* One request, from the invocation of the model to the response: whatever the
\* model answers, the step that follows the invocation is the response, and
\* the request has invoked the model once.
InvokedOnce(request, answered) ==
  /\ answered.pc # "idle" => answered.calls <= 1
  /\ (request.pc = "calling" /\ answered # request)
       => /\ answered.pc = "done"
          /\ answered.calls = 1

\* C32: an analysis request and a chat request each invoke the model at most
\* once: the outcome of the invocation, a failure and a text that is not JSON
\* included, is followed by the response of the request, never by a second
\* invocation.
C32_NoRetry ==
  [][ InvokedOnce(analysis, analysis') /\ InvokedOnce(chat, chat') ]_vars

\* an analysis request answered after a text that is not JSON and a chat
\* request answered after a failure of the model, one invocation each
C32_Witness ==
  /\ analysis.pc = "done"
  /\ ParseFailed
  /\ analysis.calls = 1
  /\ chat.pc = "done"
  /\ ChatModelFailed
  /\ chat.calls = 1


\* The step serves a request on case cid sent by an account of the role.
ServedForRole(cid, role) ==
  /\ nreq' = nreq + 1
  /\ resp'.cid = cid
  /\ resp'.caller \in Users
  /\ Role(resp'.caller) = role

\* C33: the unread flag of a role goes from true to false only in a step that
\* serves a request of a caller of that role on that case: hasUnreadForDoctor
\* is cleared by a DOCTOR's call only, hasUnreadForPatient by a PATIENT's call
\* only.
C33_FlagClearedByOwnRole ==
  [][ StoreUntouched \/
      \A stored \in { StoredCaseHeads } : \A later \in { StoredCaseHeads' } :
      \A i \in 1 .. Len(stored) :
        LET before == stored[i]
            after  == Rows(later, before.id)[1]
        IN  /\ (before.hasUnreadForDoctor /\ ~ after.hasUnreadForDoctor)
                 => ServedForRole(before.id, DOCTOR)
            /\ (before.hasUnreadForPatient /\ ~ after.hasUnreadForPatient)
                 => ServedForRole(before.id, PATIENT) ]_vars

\* a case with both flags up, on which the doctor's markRead and the owner's
\* markRead are about to be served: each clears one flag
C33_Witness ==
  \E i \in 1 .. Len(StoredCaseHeads) :
    /\ StoredCaseHeads[i].hasUnreadForDoctor
    /\ StoredCaseHeads[i].hasUnreadForPatient
    /\ ENABLED (Next /\ Served("markRead") /\ Succeeded(resp')
                     /\ resp'.cid = StoredCaseHeads[i].id
                     /\ resp'.caller = "doctor_demo")
    /\ ENABLED (Next /\ Served("markRead") /\ Succeeded(resp')
                     /\ resp'.cid = StoredCaseHeads[i].id
                     /\ resp'.caller = StoredCaseHeads[i].patientId)


\* C34: an appendMessage of any known caller on any existing case succeeds,
\* whoever owns the case: the message, sent under the caller's id, is the last
\* of that case's messages afterwards, and the unread flag of the role that
\* did not send it is up.
C34_AppendWithoutOwnership ==
  [][ (Served("appendMessage") /\ resp'.caller \in Users
         /\ Exists(StoredCases, resp'.cid))
        => LET before == StoredCase(resp'.cid)
               after  == Rows(StoredCases', resp'.cid)[1]
           IN  /\ Succeeded(resp')
               /\ Len(resp'.msg) = 1
               /\ resp'.msg[1].senderId = resp'.caller
               /\ resp'.msg[1].text = resp'.arg
               /\ after.messages = Append(before.messages, resp'.msg[1])
               /\ after.patientId = before.patientId
               /\ IF Role(resp'.caller) = PATIENT
                    THEN after.hasUnreadForDoctor
                    ELSE after.hasUnreadForPatient ]_vars

\* patient_2 has posted a message to a case of patient_demo: it is stored in
\* that case and the doctor's flag is up
C34_Witness ==
  /\ resp.op = "appendMessage"
  /\ Succeeded(resp)
  /\ resp.caller = "patient_2"
  /\ LET c == StoredCase(resp.cid)
     IN  /\ c.patientId = "patient_demo"
         /\ c.messages # << >>
         /\ c.messages[Len(c.messages)].senderId = "patient_2"
         /\ c.hasUnreadForDoctor


\* The unread flag of a role in a case.
UnreadFor(c, role) ==
  IF role = DOCTOR THEN c.hasUnreadForDoctor ELSE c.hasUnreadForPatient

\* C35: a successful view by a caller whose unread flag of the case was up when
\* the case was read returns the case with that flag up, and the stored case
\* has the flag down after the call.
C35_ViewReturnsSnapshot ==
  [][ (Served("view") /\ resp'.caller \in Users /\ Succeeded(resp')
         /\ UnreadFor(StoredCase(resp'.cid), Role(resp'.caller)))
        => /\ Len(resp'.body) = 1
           /\ UnreadFor(resp'.body[1], Role(resp'.caller))
           /\ ~ UnreadFor(Rows(StoredCases', resp'.cid)[1], Role(resp'.caller)) ]_vars


\* The login request r did not carry the password of an account: its id has
\* no account, or the password is not the one of the account.
WithoutPassword(r) ==
  ~ (r.id \in StoredIds /\ PasswordOf(Account(r.id), r.password))

\* What the caller of a login sees: the status, the detail and the body.
LoginOutcome(r) ==
  [code |-> r.code, detail |-> r.detail, token |-> r.token, user |-> r.user]

\* C36: two logins in a row that both lack the password of an account, the id
\* known or not, whatever the roles asked for and stored, are answered alike:
\* 401 with the same detail and no token or profile; and a login is answered
\* 403 only when its password is the one of the account.
C36_LoginRevealsNothing ==
  [][ /\ ( /\ auth_resp.op = "login" /\ WithoutPassword(auth_resp)
           /\ auth_resp'.op = "login" /\ WithoutPassword(auth_resp') )
          => /\ LoginOutcome(auth_resp') = LoginOutcome(auth_resp)
             /\ auth_resp'.code = 401
             /\ auth_resp'.token = None
             /\ auth_resp'.user = None
      /\ (auth_resp'.op = "login" /\ auth_resp'.code = 403)
          => ~ WithoutPassword(auth_resp') ]_vars

\* a login with the id of an account, a wrong password and a role that is not
\* the account's was answered 401, while another id has no account yet
C36_Witness ==
  /\ auth_resp.op = "login"
  /\ auth_resp.id \in StoredIds
  /\ ~ PasswordOf(Account(auth_resp.id), auth_resp.password)
  /\ Account(auth_resp.id).role # auth_resp.role
  /\ auth_resp.code = 401
  /\ Users \ StoredIds # {}

=============================================================================
